---------------------------- MODULE Spec2Model ----------------------------
(***************************************************************************)
(* A model of the semantic analyser of the Glint front end                 *)
(* (src/lib/glint/sema.cc).                                                *)
(*                                                                         *)
(* The module holds several state machines over one set of variables; pc   *)
(* tells which one a behaviour belongs to:                                 *)
(*                                                                         *)
(*   Spec        Sema::AnalyseFunctionBody on one function: the parameter  *)
(*               declarations, the children of the body block one by one,  *)
(*               and the end of the function (leak report, return          *)
(*               insertion).  The children are local declarations          *)
(*               `v : T;`, name references `n;`, unary minus on a name     *)
(*               reference `-n;` and `return n;`.                          *)
(*   SpecType    Sema::Analyse(Type** ) on a type drawn from a bounded     *)
(*               family of type graphs.                                    *)
(*   SpecStruct  the Struct case of Sema::Analyse(Type** ): layout.        *)
(*   SpecEnum    the Enum case of Sema::Analyse(Type** ): enumerators.     *)
(*   SpecReentry Spec and SpecType together (calls of Analyse on nodes     *)
(*               that have been analysed before).                          *)
(***************************************************************************)
EXTENDS Integers, Sequences, FiniteSets, TLC

VARIABLES
    pc,          \* position of the analyser
    \* ---- the function under analysis (fixed by Init) --------------------
    func,        \* [role, type: per declaration; conflict; ret; main]
    \* ---- Sema / Context / FuncDecl state ---------------------------------
    sema,        \* sema state of every declaration (SemaNode::State)
    dangling,    \* FuncDecl::dangling_dynarrays(), a vector
    diags,       \* diagnostics emitted by the latest step (message kinds)
    leaks,       \* declarations reported as "You forgot to free this dynamic array"
    errorFlag,   \* Context::error_flag
    nstmts,      \* children of the body block analysed so far
    visited,     \* declarations whose VarDecl child has been analysed as a child
    last,        \* what the analysis of the latest child did
    \* ---- history of the run ----------------------------------------------
    declared,    \* declarations whose VarDecl has been analysed
    freed,       \* declarations on which the free of unary minus has run
    returned,    \* declarations removed by `return n`
    \* ---- Analyse(Type** ) ------------------------------------------------
    types,       \* the type nodes of the module's arena
    tdecls,      \* the declarations the scope of the types holds, by name
    slot,        \* the node in *type_ptr
    orig,        \* the node Analyse(Type** ) was first called on
    result,      \* what the latest call of Analyse(Type** ) returned
    \* ---- the Struct and Enum cases ---------------------------------------
    struct,      \* a struct type: members, offsets, size, alignment
    enum,        \* an enum type: underlying type, enumerators, values, scope
    \* ---- Analyse(Expr** ) on one expression, and the conversions ----------
    expr         \* the expression in *expr_ptr and what its analysis left

bodyVars == <<func, sema, dangling, diags, leaks, errorFlag, nstmts, visited, last,
             declared, freed, returned>>

ctxVars == <<diags, errorFlag>>

typeVars == <<types, tdecls, slot, orig, result>>

vars == <<pc, bodyVars, typeVars, struct, enum, expr>>

-----------------------------------------------------------------------------
(* Bounds of the model.                                                    *)

\* Longest body block, in children.
MaxStmts == 3

-----------------------------------------------------------------------------
(* SemaNode::State and its predicates.                                     *)

NotAnalysed == "NotAnalysed"
InProgress == "InProgress"
Errored == "Errored"
NoLongerViable == "NoLongerViable"
Done == "Done"

SemaStates == {NotAnalysed, InProgress, Errored, NoLongerViable, Done}

\* SemaNode::ok(): analysis finished without error.
ok(state) == state = Done

\* SemaNode::sema_done_or_errored().
sema_done_or_errored(state) == state \in {Done, Errored}

-----------------------------------------------------------------------------
(* Identifiers.  A name is a sequence of characters.                       *)

Chars(name) ==
    CASE name = "abc" -> <<"a", "b", "c">>
      [] name = "acb" -> <<"a", "c", "b">>
      [] name = "xyz" -> <<"x", "y", "z">>
      [] name = "q"   -> <<"q">>
      [] name = "fas" -> <<"f", "a", "s">>
      [] name = "bas" -> <<"b", "a", "s">>
      [] name = "bar" -> <<"b", "a", "r">>
      [] name = "ba"  -> <<"b", "a">>
      [] name = "abcd" -> <<"a", "b", "c", "d">>
      [] name = "acbd" -> <<"a", "c", "b", "d">>
      [] name = "hello" -> <<"h", "e", "l", "l", "o">>

\* The declarations a function may hold, each known by its name.
Decls == {"abc", "xyz"}

\* The names a NameRef may carry: the declared ones, a transposition of one
\* of them, and one that is close to nothing.
RefNames == {"abc", "acb", "xyz", "q"}

NoDecl == "none"

Min2(a, b) == IF a <= b THEN a ELSE b

Min3(a, b, c) == Min2(a, Min2(b, c))

\* `ref(i, j)` of optimal_string_alignment_distance: the cell of the flat
\* array that holds d[i][j].
OsaRef(i, j, n) == (i * n) + j

RECURSIVE OsaFirstColumn(_, _, _, _)
\* for (i = 0; i <= m; ++i) ref(i, 0) = i;
OsaFirstColumn(d, i, m, n) ==
    IF i > m THEN d
    ELSE OsaFirstColumn([d EXCEPT ![OsaRef(i, 0, n)] = i], i + 1, m, n)

RECURSIVE OsaFirstRow(_, _, _)
\* for (j = 0; j <= n; ++j) ref(0, j) = j;
OsaFirstRow(d, j, n) ==
    IF j > n THEN d
    ELSE OsaFirstRow([d EXCEPT ![OsaRef(0, j, n)] = j], j + 1, n)

\* One iteration of the inner loop: substitution check, then transposition.
OsaCell(d, s, t, i, j) ==
    LET n == Len(t)
        cost == IF s[i] # t[j] THEN 1 ELSE 0
        base == Min3(d[OsaRef(i - 1, j, n)] + 1,
                     d[OsaRef(i, j - 1, n)] + 1,
                     d[OsaRef(i - 1, j - 1, n)] + cost)
        d1 == [d EXCEPT ![OsaRef(i, j, n)] = base]
    IN  IF i > 1 /\ j > 1 /\ s[i] = t[j - 1] /\ s[i - 1] = t[j]
        THEN [d1 EXCEPT ![OsaRef(i, j, n)] =
                 Min2(d1[OsaRef(i, j, n)], d1[OsaRef(i - 2, j - 2, n)] + 1)]
        ELSE d1

RECURSIVE OsaLoop(_, _, _, _, _)
\* for (j = 1; j <= n; ++j) for (i = 1; i <= m; ++i) ...
OsaLoop(d, s, t, i, j) ==
    IF j > Len(t) THEN d
    ELSE IF i > Len(s) THEN OsaLoop(d, s, t, 1, j + 1)
    ELSE OsaLoop(OsaCell(d, s, t, i, j), s, t, i + 1, j)

optimal_string_alignment_distance(s, t) ==
    LET m == Len(s)
        n == Len(t)
        zero == [k \in 0 .. ((m + 1) * (n + 1) - 1) |-> 0]
        d == OsaLoop(OsaFirstRow(OsaFirstColumn(zero, 0, m, n), 0, n), s, t, 1, 1)
    IN  d[OsaRef(m, n, n)]

\* The distances sema asks for, computed once.
OsaTable ==
    [p \in RefNames \X Decls |->
        optimal_string_alignment_distance(Chars(p[1]), Chars(p[2]))] @@ << >>


-----------------------------------------------------------------------------
(* The values of the variables a state machine does not use.               *)

NoStruct == [state |-> "none"]

NoEnum == [state |-> "none"]

NoExpr == [kind |-> "none"]

TypeIdle ==
    /\ types = << >>
    /\ tdecls = << >>
    /\ slot = 0
    /\ orig = 0
    /\ result = FALSE

-----------------------------------------------------------------------------
(* The function under analysis.                                            *)

\* What a declaration is in the function: a parameter, a local variable of
\* the body, or not declared at all.
Roles == {"none", "param", "local"}

\* Types of variables and of the function's return value.
VarTypes == {"int", "dyn"}

RetTypes == {"void", "int", "dyn"}

\* The order of the parameters in the function type.
ParamOrder == <<"abc", "xyz">>

Params == {d \in Decls : func.role[d] = "param"}

Locals == {d \in Decls : func.role[d] = "local"}

\* Scope::find_recursive / all_symbols_recursive see the parameters and the
\* locals of the whole body: the parser declares a name where it parses its
\* declaration, before sema runs.
InScope == Params \cup Locals

Funcs ==
    {f \in [role : [Decls -> Roles], type : [Decls -> VarTypes],
            conflict : Decls \cup {NoDecl}, ret : RetTypes, main : BOOLEAN] :
        /\ \A d \in Decls : f.role[d] = "none" => f.type[d] = "int"
        /\ f.conflict # NoDecl => f.role[f.conflict] # "none"
        /\ f.main => f.ret = "int"}

\* No child analysed yet.
NoChild ==
    [kind |-> "none", target |-> NoDecl, type |-> "unknown",
     state |-> NotAnalysed, wasFreed |-> FALSE,
     result |-> FALSE, tail |-> "none", errAtCheck |-> FALSE]

\* The NameRef under analysis before it is resolved.
NoRef == [target |-> NoDecl, type |-> "unknown", state |-> InProgress]

\* The state sema works on, as one value.
Snapshot ==
    [sema |-> sema, dangling |-> dangling, diags |-> {}, leaks |-> leaks,
     err |-> errorFlag, declared |-> declared, freed |-> freed,
     returned |-> returned, ref |-> NoRef]

-----------------------------------------------------------------------------
(* Diagnostics.                                                            *)

\* Sema::Error: the diagnostic is issued and the context's error flag set.
Error(st, msg) ==
    [st EXCEPT !.diags = @ \cup {msg}, !.err = TRUE]

\* Sema::Warning: the diagnostic is issued, the error flag is left alone.
Warning(st, msg) ==
    [st EXCEPT !.diags = @ \cup {msg}]

\* std::erase(vector, value): every occurrence goes.
erase(seq, x) == SelectSeq(seq, LAMBDA y : y # x)

SeqToSet(seq) == {seq[i] : i \in 1 .. Len(seq)}

-----------------------------------------------------------------------------
(* Conversions between the types of this model (void, int, dynamic array). *)

\* ConvertImpl on these types: anything converts to void and to itself at
\* score 0; a dynamic array and an integer convert to nothing else.
ConvertImpl(from, to) ==
    IF to = "void" THEN 0
    ELSE IF from = to THEN 0
    ELSE -1

\* Sema::Convert: an errored expression converts to anything.
Convert(state, from, to) ==
    IF state = Errored THEN TRUE ELSE ConvertImpl(from, to) >= 0

-----------------------------------------------------------------------------
(* Analyse(Expr** ) on the expressions of the body.                        *)

\* Analyse(Expr** ) on the VarDecl of d (a declaration without initialiser).
AnalyseVarDecl(st, d) ==
    IF st.sema[d] # NotAnalysed THEN st
    ELSE LET pushed == IF func.type[d] = "dyn"
                       THEN [st EXCEPT !.dangling = Append(@, d)]
                       ELSE st
         IN  [pushed EXCEPT !.sema[d] = Done, !.declared = @ \cup {d}]

\* The declarations closest to the name, one of which the search of
\* AnalyseNameRef keeps (which one depends on the order of the scope).
LeastDistanceDecls(n) ==
    IF InScope = {} THEN {NoDecl}
    ELSE {d \in InScope : \A e \in InScope : OsaTable[<<n, d>>] <= OsaTable[<<n, e>>]}

\* AnalyseNameRef without the test for a declaration that is InProgress.
AnalyseNameRef_NoInProgressTest(st, n, cand) ==
    LET syms == {d \in InScope : d = n}
    IN  IF syms = {}
        THEN [Error(st, "unknown_symbol") EXCEPT
                 !.ref = [target |-> NoDecl, type |-> "unknown", state |-> Errored]]
        ELSE LET e == CHOOSE d \in syms : TRUE
                 st1 == AnalyseVarDecl(st, e)
             IN  [st1 EXCEPT
                     !.ref = [target |-> e, type |-> func.type[e], state |-> Done]]

\* Sema::AnalyseNameRef followed by the end of Analyse(Expr** ).
AnalyseNameRef(st, n, cand) ==
    LET syms == {d \in InScope : d = n}
    IN  IF syms = {}
        THEN IF /\ cand # NoDecl
                /\ OsaTable[<<n, cand>>] = 1
                /\ Len(Chars(n)) > 2
                /\ Len(Chars(n)) = Len(Chars(cand))
             THEN [Warning(st, "treating_as") EXCEPT
                      !.ref = [target |-> cand, type |-> func.type[cand], state |-> Done]]
             ELSE [Error(st, "unknown_symbol") EXCEPT
                      !.ref = [target |-> NoDecl, type |-> "unknown", state |-> Errored]]
        ELSE LET e == CHOOSE d \in syms : TRUE
                 st1 == AnalyseVarDecl(st, e)
                 st2 == IF st1.sema[e] = NoLongerViable
                        THEN Error(st1, "use_after_free")
                        ELSE st1
             IN  IF st2.sema[e] = InProgress
                 THEN [Error(st2, "own_initialiser") EXCEPT
                          !.ref = [target |-> NoDecl, type |-> "unknown", state |-> Errored]]
                 ELSE [st2 EXCEPT
                          !.ref = [target |-> e, type |-> func.type[e], state |-> Done]]

\* The free of Sema::AnalyseUnary (Minus): the target is no longer viable
\* and leaves the dangling set.
FreeDynamicArray(st, target) ==
    [st EXCEPT !.sema[target] = NoLongerViable,
               !.dangling = erase(@, target),
               !.freed = @ \cup {target}]

\* Sema::AnalyseUnary for prefix minus on a NameRef; the result carries the
\* state and type of the unary expression in `unary`.
AnalyseUnary(st, n, cand) ==
    LET st1 == AnalyseNameRef(st, n, cand)
    IN  IF ~ok(st1.ref.state)
        THEN [st |-> st1, state |-> Errored, type |-> "unknown"]
        ELSE IF st1.ref.type = "dyn"
        THEN [st |-> FreeDynamicArray(st1, st1.ref.target), state |-> Done, type |-> "void"]
        ELSE [st |-> st1, state |-> Done, type |-> "int"]

\* The Return case of Analyse(Expr** ) with a NameRef operand: a returned
\* dynamic array leaves the dangling set.
RemoveReturned(st) ==
    IF st.ref.type = "dyn"
    THEN [st EXCEPT !.dangling = erase(@, st.ref.target)]
    ELSE st

AnalyseReturn(st, n, cand) ==
    LET st1 == AnalyseNameRef(st, n, cand)
        st2 == [RemoveReturned(st1) EXCEPT
                   !.returned = IF st1.ref.target # NoDecl
                                THEN @ \cup {st1.ref.target} ELSE @]
    IN  IF func.ret = "void"
        THEN IF ok(st2.ref.state) /\ st2.ref.type # "void"
             THEN Error(st2, "void_function_returns_value")
             ELSE st2
        ELSE IF ~Convert(st2.ref.state, st2.ref.type, func.ret)
             THEN Error(st2, "return_not_convertible")
             ELSE st2

\* Sema::HasSideEffects on the kinds of child of this model.
HasSideEffects(kind) == kind \in {"VarDecl", "Return"}

\* Sema::Discard on a child of the block.
Discard(st, kind, state, type) ==
    IF ~ok(state) \/ type = "void" THEN st
    ELSE IF ~HasSideEffects(kind) THEN Warning(st, "result_unused")
    ELSE st

-----------------------------------------------------------------------------
(* Sema::AnalyseFunctionBody.                                              *)

RECURSIVE DeclareParameters(_, _)
\* The loop over the parameters: each named parameter gets a VarDecl, which
\* is analysed; a parameter whose name is taken is reported and skipped.
DeclareParameters(st, i) ==
    IF i > Len(ParamOrder)
    THEN IF func.conflict # NoDecl
         THEN Error(st, "param_conflict")
         ELSE st
    ELSE IF ParamOrder[i] \in Params
    THEN DeclareParameters(AnalyseVarDecl(st, ParamOrder[i]), i + 1)
    ELSE DeclareParameters(st, i + 1)

\* ClearDangling without the clear.
ClearDangling_Forgotten(st) == st

\* decl->dangling_dynarrays().clear(): the parameters are the caller's.
ClearDangling(st) == [st EXCEPT !.dangling = <<>>]

\* ReportLeaks with a loop that stops one entry short.
ReportLeaks_AllButLast(st) ==
    LET shown == SeqToSet(SubSeq(st.dangling, 1, Len(st.dangling) - 1))
    IN  [st EXCEPT !.leaks = @ \cup shown,
                   !.diags = IF shown # {} THEN @ \cup {"leak"} ELSE @,
                   !.err = @ \/ shown # {}]

\* The loop that reports every entry of the dangling set.
ReportLeaks(st) ==
    [st EXCEPT !.leaks = @ \cup SeqToSet(st.dangling),
               !.diags = IF st.dangling # <<>> THEN @ \cup {"leak"} ELSE @,
               !.err = @ \/ st.dangling # <<>>]

\* The end of the body without the wrapping of the last expression.
EnsureReturn_KeptOnly(st) ==
    IF nstmts > 0 /\ last.kind = "Return"
    THEN [st |-> st, tail |-> "return_kept"]
    ELSE [st |-> st, tail |-> "none"]

\* The end of AnalyseFunctionBody: the last expression of the body becomes a
\* return.  `tail` tells what was done.
EnsureReturn(st) ==
    IF func.ret # "void"
    THEN IF nstmts = 0
         THEN IF ~func.main
              THEN [st |-> Error(st, "must_return_value"), tail |-> "none"]
              ELSE [st |-> st, tail |-> "return_0_inserted"]
         ELSE IF last.kind = "Return"
         THEN [st |-> st, tail |-> "return_kept"]
         ELSE IF ~Convert(last.state, last.type, func.ret)
         THEN [st |-> Error(st, "last_not_convertible"), tail |-> "none"]
         ELSE [st |-> st, tail |-> "wrapped_in_return"]
    ELSE IF nstmts = 0 \/ last.kind # "Return"
         THEN [st |-> st, tail |-> "void_return_added"]
         ELSE [st |-> st, tail |-> "return_kept"]

\* What AnalyseFunctionBody does once the body is analysed.
EndOfBody(st) ==
    IF st.err THEN [st |-> st, tail |-> "none"]
    ELSE EnsureReturn(ReportLeaks(st))

\* The variables take the values sema computed.
Commit(st) ==
    /\ sema' = st.sema
    /\ dangling' = st.dangling
    /\ diags' = st.diags
    /\ leaks' = st.leaks
    /\ errorFlag' = st.err
    /\ declared' = st.declared
    /\ freed' = st.freed
    /\ returned' = st.returned
    /\ UNCHANGED <<typeVars, struct, enum, expr>>

\* One child of the body block, as the Block case of Analyse(Expr** ) treats
\* it: analysed, and discarded unless it is the last one.
BlockChild(st, kind, state, type, isLast) ==
    LET st1 == IF ~isLast THEN Discard(st, kind, state, type) ELSE st
    IN  /\ Commit(st1)
        /\ nstmts' = nstmts + 1
        /\ last' = [kind |-> kind, target |-> st.ref.target,
                    type |-> type, state |-> state,
                    wasFreed |-> st.ref.target \in freed,
                    result |-> ok(state),
                    tail |-> "none", errAtCheck |-> FALSE]
        /\ pc' = IF isLast THEN "end" ELSE "body"
        /\ UNCHANGED func

\* A further child may follow unless the block is full.
MayAnalyseChild(isLast) ==
    /\ pc = "body"
    /\ nstmts < MaxStmts
    /\ ~isLast => nstmts + 1 < MaxStmts

AnalyseParameters ==
    /\ pc = "params"
    /\ Commit(ClearDangling(DeclareParameters(Snapshot, 1)))
    /\ pc' = "body"
    /\ UNCHANGED <<func, nstmts, visited, last>>

AnalyseVarDeclChild(d, isLast) ==
    /\ MayAnalyseChild(isLast)
    /\ d \in Locals \ visited
    /\ visited' = visited \cup {d}
    /\ LET st == AnalyseVarDecl(Snapshot, d)
       IN  BlockChild(st, "VarDecl", st.sema[d], func.type[d], isLast)

AnalyseNameRefChild(n, cand, isLast) ==
    /\ MayAnalyseChild(isLast)
    /\ LET st == AnalyseNameRef(Snapshot, n, cand)
       IN  BlockChild(st, "NameRef", st.ref.state, st.ref.type, isLast)
    /\ UNCHANGED visited

AnalyseUnaryChild(n, cand, isLast) ==
    /\ MayAnalyseChild(isLast)
    /\ LET u == AnalyseUnary(Snapshot, n, cand)
       IN  BlockChild(u.st, "Unary", u.state, u.type, isLast)
    /\ UNCHANGED visited

AnalyseReturnChild(n, cand, isLast) ==
    /\ MayAnalyseChild(isLast)
    /\ LET st == AnalyseReturn(Snapshot, n, cand)
       IN  BlockChild(st, "Return", Done, "void", isLast)
    /\ UNCHANGED visited

FinishFunctionBody ==
    /\ pc = "end" \/ (pc = "body" /\ nstmts = 0)
    /\ LET e == EndOfBody(Snapshot)
       IN  /\ Commit(e.st)
           /\ last' = [last EXCEPT !.tail = e.tail, !.errAtCheck = errorFlag]
    /\ pc' = "done"
    /\ UNCHANGED <<func, nstmts, visited>>

InitBody ==
    /\ pc = "params"
    /\ func \in Funcs
    /\ sema = [d \in Decls |-> NotAnalysed]
    /\ dangling = <<>>
    /\ diags = {}
    /\ leaks = {}
    /\ errorFlag = FALSE
    /\ nstmts = 0
    /\ visited = {}
    /\ last = NoChild
    /\ declared = {}
    /\ freed = {}
    /\ returned = {}
    /\ TypeIdle
    /\ struct = NoStruct
    /\ enum = NoEnum
    /\ expr = NoExpr

NextBody ==
    \/ AnalyseParameters
    \/ \E d \in Decls, isLast \in BOOLEAN : AnalyseVarDeclChild(d, isLast)
    \/ \E n \in RefNames, isLast \in BOOLEAN :
          \E cand \in LeastDistanceDecls(n) : AnalyseNameRefChild(n, cand, isLast)
    \/ \E n \in RefNames, isLast \in BOOLEAN :
          \E cand \in LeastDistanceDecls(n) : AnalyseUnaryChild(n, cand, isLast)
    \/ \E n \in RefNames, isLast \in BOOLEAN :
          \E cand \in LeastDistanceDecls(n) : AnalyseReturnChild(n, cand, isLast)
    \/ FinishFunctionBody

Spec == InitBody /\ [][NextBody]_vars

-----------------------------------------------------------------------------
(* Properties of the dangling-array tracker (specification Spec).          *)

InBody == pc \in {"body", "end", "done"}

\* The dynamic-array locals of the body analysed so far.
DeclaredDynArrays == {d \in Locals : func.type[d] = "dyn" /\ d \in declared}

C2_DanglingIsDeclaredMinusFreedAndReturned ==
    InBody =>
        /\ SeqToSet(dangling) = DeclaredDynArrays \ (freed \cup returned)
        /\ Cardinality(SeqToSet(dangling)) = Len(dangling)

\* C3: a freed declaration is NoLongerViable from then on, and a NameRef to
\* a declaration reports a use after free exactly when that declaration was
\* freed before the NameRef is analysed.
C3_UseAfterFreeAlwaysReported ==
    /\ \A d \in freed : sema[d] = NoLongerViable
    /\ (pc \in {"body", "end"} /\ last.target # NoDecl) =>
           (last.wasFreed <=> "use_after_free" \in diags)

\* C4: a parameter is never in the dangling set while the body is analysed
\* and is never reported as a leak.
C4_ParametersNeverDangling ==
    InBody => \A d \in Params : d \notin SeqToSet(dangling) /\ d \notin leaks

\* A function with a dynamic-array parameter that its body refers to
\* reaches its end without an error.
C4_Witness ==
    /\ pc = "done"
    /\ ~errorFlag
    /\ last.target \in Params
    /\ func.type[last.target] = "dyn"

-----------------------------------------------------------------------------
(* Types.  A type is a node of the arena `types`; a node names its element, *)
(* members, parameters and return type by their places in the arena, and    *)
(* each such field is a slot a call of Analyse(Type** ) may rewrite.        *)

\* Most members of a struct, union or sum type of the family.
MaxMembers == 2

\* Most parameters of a function type of the family.
MaxParams == 1

Node(kind) ==
    [kind |-> kind, state |-> NotAnalysed, elem |-> 0, members |-> << >>,
     ret |-> 0, name |-> "", bits |-> 0, len |-> 0, attrs |-> {}]

\* The nodes every arena starts with: the builtin types int (1) and void
\* (2), marked done by their constructors; the function type int() that
\* the alias F names (3); the struct that the declaration S names (4),
\* whose only member is a pointer (5) to the named type S (6).
BaseTypes ==
    << [Node("Builtin") EXCEPT !.state = Done, !.name = "int"],
       [Node("Builtin") EXCEPT !.state = Done, !.name = "void"],
       [Node("Function") EXCEPT !.ret = 1],
       [Node("Struct") EXCEPT !.members = <<5>>],
       [Node("Pointer") EXCEPT !.elem = 6],
       [Node("Named") EXCEPT !.name = "S"] >>

\* The scope: two aliases, a struct declaration and a variable.  No
\* declaration is called U.
BaseDecls ==
    [F |-> [kind |-> "TypeAliasDecl", type |-> 3, state |-> NotAnalysed],
     I |-> [kind |-> "TypeAliasDecl", type |-> 1, state |-> NotAnalysed],
     S |-> [kind |-> "TypeDecl", type |-> 4, state |-> NotAnalysed],
     V |-> [kind |-> "VarDecl", type |-> 1, state |-> NotAnalysed]]

\* The types a slot of the family may hold at first.
Leaves == {"int", "void", "F", "I", "S", "V", "U", "fn", "ref", "i0", "i32"}

LeafNode(leaf) ==
    CASE leaf \in {"F", "I", "S", "V", "U"} -> [Node("Named") EXCEPT !.name = leaf]
      [] leaf = "fn" -> [Node("Function") EXCEPT !.ret = 1]
      [] leaf = "ref" -> [Node("Reference") EXCEPT !.elem = 1]
      [] leaf = "i0" -> Node("Integer")
      [] leaf = "i32" -> [Node("Integer") EXCEPT !.bits = 32]

RECURSIVE AddLeaves(_, _, _)
\* The arena with a node for every leaf, and the places of these nodes.
AddLeaves(ts, kids, i) ==
    IF i > Len(kids) THEN [types |-> ts, ids |-> << >>]
    ELSE IF kids[i] \in {"int", "void"}
    THEN LET rest == AddLeaves(ts, kids, i + 1)
         IN  [types |-> rest.types,
              ids |-> <<IF kids[i] = "int" THEN 1 ELSE 2>> \o rest.ids]
    ELSE LET ts1 == Append(ts, LeafNode(kids[i]))
             rest == AddLeaves(ts1, kids, i + 1)
         IN  [types |-> rest.types, ids |-> <<Len(ts1)>> \o rest.ids]

SeqsOf(S, lo, hi) == UNION {[1 .. k -> S] : k \in lo .. hi}

\* The family of types: a leaf, or one node over leaves.
Shapes ==
    [kind : {"Leaf", "Pointer", "Reference", "DynamicArray"},
     kids : SeqsOf(Leaves, 1, 1), len : {0}, attrs : {{}}]
    \cup [kind : {"Array"}, kids : SeqsOf(Leaves, 1, 1), len : {0, 2}, attrs : {{}}]
    \cup [kind : {"Function"}, kids : SeqsOf(Leaves, 1, 1 + MaxParams), len : {0},
          attrs : {{}, {"discardable"}}]
    \cup [kind : {"Sum", "Union", "Struct"}, kids : SeqsOf(Leaves, 0, MaxMembers),
          len : {0}, attrs : {{}}]

BuildType(shape) ==
    LET b == AddLeaves(BaseTypes, shape.kids, 1)
        node ==
            CASE shape.kind \in {"Pointer", "Reference", "DynamicArray"} ->
                    [Node(shape.kind) EXCEPT !.elem = b.ids[1]]
              [] shape.kind = "Array" ->
                    [Node("Array") EXCEPT !.elem = b.ids[1], !.len = shape.len]
              [] shape.kind = "Function" ->
                    [Node("Function") EXCEPT !.ret = b.ids[1], !.members = Tail(b.ids),
                                             !.attrs = shape.attrs]
              [] OTHER -> [Node(shape.kind) EXCEPT !.members = b.ids]
    IN  IF shape.kind = "Leaf"
        THEN [types |-> b.types, root |-> b.ids[1]]
        ELSE [types |-> Append(b.types, node), root |-> Len(b.types) + 1]

\* The analysis of types works on h = [types, decls, diags, err]: the
\* arena, the declarations in scope, and the context's diagnostics.
SetState(h, id, state) == [h EXCEPT !.types[id].state = state]

sema_errored(h, id) == h.types[id].state = Errored

is_function(h, id) == h.types[id].kind = "Function"

is_reference(h, id) == h.types[id].kind = "Reference"

\* The tail of Analyse(Type** ): it looks at the type the slot holds now.
TypeDone(h, id) ==
    LET h1 == IF sema_done_or_errored(h.types[id].state) THEN h ELSE SetState(h, id, Done)
    IN  [h |-> h1, id |-> id, ok |-> ok(h1.types[id].state)]

RECURSIVE CollapseRefs(_, _)
CollapseRefs(h, id) ==
    IF is_reference(h, h.types[id].elem)
    THEN CollapseRefs([h EXCEPT !.types[id].elem = h.types[h.types[id].elem].elem], id)
    ELSE h

\* Pointers and arrays of references are errors, reported unless the
\* reference is itself in error.
NoReferenceElement(h, id, msg) ==
    LET elem == h.types[id].elem
    IN  IF is_reference(h, elem)
        THEN SetState(IF ok(h.types[elem].state) THEN Error(h, msg) ELSE h, id, Errored)
        ELSE h

ArraySize(h, id) ==
    IF h.types[id].len < 1
    THEN SetState(Error(h, "array_size_not_positive"), id, Errored)
    ELSE h

FunctionAttributes(h, id) ==
    LET ret == h.types[id].ret
    IN  IF /\ ok(h.types[ret].state)
           /\ h.types[ret].kind = "Builtin"
           /\ h.types[ret].name = "void"
           /\ "discardable" \in h.types[id].attrs
        THEN Error(h, "void_discardable")
        ELSE h

RECURSIVE AnalyseType(_, _)
RECURSIVE AnalyseTypeCases(_, _)
RECURSIVE AnalyseMembers(_, _, _)
RECURSIVE AnalyseFunctionParams(_, _, _)

\* Sema::Ptr: a new pointer type to the type, analysed at once.
Ptr(h, id) ==
    LET h1 == [h EXCEPT !.types = Append(@, [Node("Pointer") EXCEPT !.elem = id])]
        r == AnalyseType(h1, Len(h1.types))
    IN  [h |-> r.h, id |-> r.id]

\* In a declaration, a function type decays to a pointer to it.
DeclTypeDecay(h, id) ==
    IF is_function(h, id) THEN Ptr(h, id) ELSE [h |-> h, id |-> id]

\* Analyse(Expr** ) of a type declaration or a type alias: the declaration
\* is a typed expression, so its type is analysed through its own slot.
AnalyseTypeDecl(h, name) ==
    IF h.decls[name].state # NotAnalysed THEN h
    ELSE LET h0 == [h EXCEPT !.decls[name].state = InProgress]
             r == AnalyseType(h0, h0.decls[name].type)
             h1 == [r.h EXCEPT !.decls[name].type = r.id]
         IN  IF sema_done_or_errored(h1.decls[name].state) THEN h1
             ELSE [h1 EXCEPT !.decls[name].state = Done]

\* A named type is resolved: the slot gets the type of the declaration.
AnalyseNamed(h, id) ==
    LET name == h.types[id].name
    IN  IF name \notin DOMAIN h.decls
        THEN [h |-> SetState(Error(h, "does_not_name_a_type"), id, Errored), id |-> id]
        ELSE IF h.decls[name].kind \in {"TypeDecl", "TypeAliasDecl"}
        THEN LET h1 == AnalyseTypeDecl(h, name)
             IN  [h |-> h1, id |-> h1.decls[name].type]
        ELSE [h |-> SetState(Error(Error(h, "is_not_a_type"), "does_not_name_a_type"),
                             id, Errored),
              id |-> id]

AnalyseElement(h, id) ==
    LET r == AnalyseType(h, h.types[id].elem)
    IN  [r.h EXCEPT !.types[id].elem = r.id]

AnalyseAndDecayElement(h, id) ==
    LET h1 == AnalyseElement(h, id)
        d == DeclTypeDecay(h1, h1.types[id].elem)
    IN  [d.h EXCEPT !.types[id].elem = d.id]

\* The loop over the members of a sum type, a union or a struct.
AnalyseMembers(h, id, i) ==
    IF i > Len(h.types[id].members) THEN h
    ELSE LET r == AnalyseType(h, h.types[id].members[i])
             d == DeclTypeDecay(r.h, r.id)
             h1 == [d.h EXCEPT !.types[id].members[i] = d.id]
             h2 == IF sema_errored(h1, d.id) THEN SetState(h1, id, Errored) ELSE h1
         IN  AnalyseMembers(h2, id, i + 1)

\* The loop over the parameters of a function type: each parameter's
\* type is decayed, and then analysed.
AnalyseFunctionParams(h, id, i) ==
    IF i > Len(h.types[id].members) THEN h
    ELSE LET d == DeclTypeDecay(h, h.types[id].members[i])
             r == AnalyseType(d.h, d.id)
         IN  AnalyseFunctionParams([r.h EXCEPT !.types[id].members[i] = r.id], id, i + 1)

AnalyseFunctionType(h, id) ==
    LET r == AnalyseType(h, h.types[id].ret)
        h1 == [r.h EXCEPT !.types[id].ret = r.id]
    IN  FunctionAttributes(AnalyseFunctionParams(h1, id, 1), id)

\* Analyse(Type** ) with a guard that lets only Done types through.
AnalyseType_GuardOnDoneOnly(h, id) ==
    IF h.types[id].state = Done
    THEN [h |-> h, id |-> id, ok |-> TRUE]
    ELSE AnalyseTypeCases(h, id)

\* Analyse(Type** type_ptr): the arena afterwards, the type the slot holds
\* afterwards, and the value returned.
AnalyseType(h, id) ==
    IF h.types[id].state # NotAnalysed
    THEN [h |-> h, id |-> id, ok |-> ok(h.types[id].state)]
    ELSE AnalyseTypeCases(h, id)

\* Analyse(Type** type_ptr) past its guard.
AnalyseTypeCases(h, id) ==
    LET h0 == SetState(h, id, InProgress)
        kind == h.types[id].kind
    IN  IF kind = "Sum" /\ Len(h.types[id].members) < 2
        THEN [h |-> Error(h0, "sum_type_too_few_members"), id |-> id, ok |-> FALSE]
        ELSE LET r == CASE kind = "Named" -> AnalyseNamed(h0, id)
                        [] kind = "Pointer" ->
                              [h |-> NoReferenceElement(AnalyseElement(h0, id), id,
                                                        "pointer_to_reference"),
                               id |-> id]
                        [] kind = "Reference" ->
                              [h |-> CollapseRefs(AnalyseElement(h0, id), id), id |-> id]
                        [] kind = "Array" ->
                              [h |-> ArraySize(
                                         NoReferenceElement(AnalyseAndDecayElement(h0, id),
                                                            id, "array_of_reference"),
                                         id),
                               id |-> id]
                        [] kind = "DynamicArray" ->
                              [h |-> NoReferenceElement(AnalyseAndDecayElement(h0, id), id,
                                                        "dynamic_array_of_reference"),
                               id |-> id]
                        [] kind \in {"Sum", "Union", "Struct"} ->
                              [h |-> AnalyseMembers(h0, id, 1), id |-> id]
                        [] kind = "Function" ->
                              [h |-> AnalyseFunctionType(h0, id), id |-> id]
                        [] kind = "Integer" ->
                              [h |-> IF h.types[id].bits = 0
                                     THEN SetState(Error(h0, "bit_width_0"), id, Errored)
                                     ELSE h0,
                               id |-> id]
             IN  TypeDone(r.h, r.id)

\* What the body's variables hold while a type is analysed.
BodyIdle ==
    /\ func = CHOOSE f \in Funcs : \A d \in Decls : f.role[d] = "none"
    /\ sema = [d \in Decls |-> NotAnalysed]
    /\ dangling = << >>
    /\ leaks = {}
    /\ nstmts = 0
    /\ visited = {}
    /\ last = NoChild
    /\ declared = {}
    /\ freed = {}
    /\ returned = {}

TypeHeap == [types |-> types, decls |-> tdecls, diags |-> {}, err |-> errorFlag]

\* A call Analyse(&slot), and what it leaves behind.
AnalyseSlot ==
    /\ LET r == AnalyseType(TypeHeap, slot)
       IN  /\ types' = r.h.types
           /\ tdecls' = r.h.decls
           /\ slot' = r.id
           /\ result' = r.ok
           /\ diags' = r.h.diags
           /\ errorFlag' = r.h.err
    /\ UNCHANGED <<orig, func, sema, dangling, leaks, nstmts, visited, last,
                   declared, freed, returned, struct, enum, expr>>

\* The first call of Analyse on the slot.
AnalyseTypeFirst ==
    /\ pc = "type"
    /\ AnalyseSlot
    /\ pc' = "type_done"

\* A later call of Analyse on the same slot.
AnalyseTypeAgain ==
    /\ pc \in {"type_done", "type_again"}
    /\ AnalyseSlot
    /\ pc' = "type_again"

InitType ==
    /\ pc = "type"
    /\ \E shape \in Shapes :
          LET b == BuildType(shape)
          IN  /\ types = b.types
              /\ slot = b.root
              /\ orig = b.root
    /\ tdecls = BaseDecls
    /\ result = FALSE
    /\ diags = {}
    /\ errorFlag = FALSE
    /\ BodyIdle
    /\ struct = NoStruct
    /\ enum = NoEnum
    /\ expr = NoExpr

NextType ==
    \/ AnalyseTypeFirst
    \/ AnalyseTypeAgain

SpecType == InitType /\ [][NextType]_vars

-----------------------------------------------------------------------------
(* The Struct case of Analyse(Type** ): sizes, alignments and offsets.     *)

\* Most members of a struct whose layout is computed.
MaxStructMembers == 3

\* What Type::size and Type::align report for a member, in bits.
SizesInBits == {0, 8, 32, 64}

AlignsInBits == {8, 32, 64}

\* A member whose type is in error has no layout; one stands for all.
StructMembers ==
    [size : SizesInBits, align : AlignsInBits, errored : {FALSE}]
    \cup {[size |-> 0, align |-> 8, errored |-> TRUE]}

\* utils::AlignTo: the least multiple of align that is at least value.
AlignTo(value, align) == ((value + align - 1) \div align) * align

Max2(a, b) == IF a >= b THEN a ELSE b

\* StructOffset without the alignment: members packed end to end.
StructOffset_Unaligned(byte_size, malign) == byte_size

\* Where the next member goes, given the size of the struct so far.
StructOffset(byte_size, malign) == AlignTo(byte_size, malign)

RECURSIVE StructMembersLoop(_, _, _)
\* The loop over the members; l = [offsets, byte_size, alignment, errored].
StructMembersLoop(members, l, i) ==
    IF i > Len(members) THEN l
    ELSE IF members[i].errored
    THEN StructMembersLoop(members, [l EXCEPT !.errored = TRUE], i + 1)
    ELSE LET msize == members[i].size \div 8
             malign == members[i].align \div 8
             byte_offset == StructOffset(l.byte_size, malign)
         IN  StructMembersLoop(members,
                               [l EXCEPT !.offsets[i] = byte_offset,
                                         !.byte_size = byte_offset + msize,
                                         !.alignment = Max2(@, malign)],
                               i + 1)

\* The Struct case followed by the end of Analyse(Type** ).
AnalyseStruct(members) ==
    LET l == StructMembersLoop(members,
                               [offsets |-> [i \in 1 .. Len(members) |-> 0],
                                byte_size |-> 0, alignment |-> 1, errored |-> FALSE],
                               1)
    IN  [state |-> IF l.errored THEN Errored ELSE Done,
         members |-> members,
         offsets |-> l.offsets,
         alignment |-> l.alignment,
         byte_size |-> IF l.byte_size # 0 THEN AlignTo(l.byte_size, l.alignment) ELSE 0]

OtherIdle ==
    /\ expr = NoExpr
    /\ diags = {}
    /\ errorFlag = FALSE
    /\ BodyIdle
    /\ TypeIdle

AnalyseStructType ==
    /\ pc = "struct"
    /\ struct' = AnalyseStruct(struct.members)
    /\ pc' = "struct_done"
    /\ UNCHANGED <<bodyVars, typeVars, enum, expr>>

InitStruct ==
    /\ pc = "struct"
    /\ \E members \in SeqsOf(StructMembers, 0, MaxStructMembers) :
          struct = [state |-> NotAnalysed, members |-> members,
                    offsets |-> [i \in 1 .. Len(members) |-> 0],
                    alignment |-> 0, byte_size |-> 0]
    /\ enum = NoEnum
    /\ OtherIdle

NextStruct == AnalyseStructType

SpecStruct == InitStruct /\ [][NextStruct]_vars

-----------------------------------------------------------------------------
(* The Enum case of Analyse(Type** ): the values of the enumerators.       *)

\* Most enumerators of an enum.
MaxEnumerators == 2

EnumeratorNames == {"a", "b", "c"}

\* What the analysis of the underlying type finds.
Underlyings == {"integer", "not_integer", "errored"}

NoInit == "none"

\* An enumerator has no initialiser, or one that evaluates to a value, or
\* one that is ill-formed, of a type that does not convert to the
\* underlying type, or not a constant.
EnumeratorInits ==
    [kind : {NoInit, "invalid", "not_convertible", "not_constant"}, value : {0}]
    \cup [kind : {"constant"}, value : {0, 5}]

Enumerators ==
    [name : EnumeratorNames, init : EnumeratorInits, state : {NotAnalysed}, value : {0}]

is_integer(underlying) == underlying = "integer"

\* The first enumerator whose name an earlier one has, or 0.
DuplicateEnumerator(vals) ==
    IF \E i \in 1 .. Len(vals) : \E j \in 1 .. i - 1 : vals[j].name = vals[i].name
    THEN CHOOSE i \in 1 .. Len(vals) :
            /\ \E j \in 1 .. i - 1 : vals[j].name = vals[i].name
            /\ \A k \in 1 .. i - 1 : \A j \in 1 .. k - 1 : vals[j].name # vals[k].name
    ELSE 0

\* The value the compiler keeps for the enumerator after one whose
\* initialiser evaluated to res.
NextValueAfter(res) == res + 1

RECURSIVE EnumeratorsLoop(_, _, _)
\* The loop that gives every enumerator a value; e is the enum with the
\* context's diagnostics, next_val the loop's counter.
EnumeratorsLoop(e, next_val, i) ==
    IF i > Len(e.enumerators) THEN e
    ELSE LET init == e.enumerators[i].init
             res == init.value
             failed(msg) == [Error(e, msg) EXCEPT !.enumerators[i].state = Errored,
                                                  !.returned = TRUE]
         IN  IF init.kind = NoInit
             THEN IF is_integer(e.underlying)
                  THEN EnumeratorsLoop([e EXCEPT !.enumerators[i].value = next_val + 1,
                                                 !.enumerators[i].state = Done],
                                       next_val + 1, i + 1)
                  ELSE failed("unhandled_underlying_type")
             ELSE IF init.kind = "invalid" THEN failed("invalid_init_expression")
             ELSE IF init.kind = "not_convertible" THEN failed("init_not_convertible")
             ELSE IF init.kind = "not_constant" THEN failed("init_not_constant")
             ELSE EnumeratorsLoop(
                      [e EXCEPT !.enumerators[i].value = res,
                                !.enumerators[i].state = Done,
                                !.declared = @ \cup {e.enumerators[i].name}],
                      IF is_integer(e.underlying) THEN NextValueAfter(res) ELSE next_val,
                      i + 1)

\* The Enum case followed by the end of Analyse(Type** ); `returned` says
\* that the case returned false by itself.
AnalyseEnum(e0) ==
    LET e == [e0 EXCEPT !.state = InProgress]
        left(x) == [x EXCEPT !.state = Errored, !.returned = TRUE]
    IN  IF e.underlying = "errored" THEN left(e)
        ELSE IF ~is_integer(e.underlying) THEN left(Error(e, "disallowed_underlying_type"))
        ELSE IF DuplicateEnumerator(e.enumerators) # 0
        THEN left(Error(e, "duplicate_enumerator"))
        ELSE LET r == EnumeratorsLoop(e, -1, 1)
             IN  IF r.returned THEN r
                 ELSE IF sema_done_or_errored(r.state) THEN r
                 ELSE [r EXCEPT !.state = Done]

AnalyseEnumType ==
    /\ pc = "enum"
    /\ LET r == AnalyseEnum([enum EXCEPT !.diags = {}, !.err = errorFlag])
       IN  /\ enum' = [r EXCEPT !.result = ~r.returned /\ ok(r.state)]
           /\ diags' = r.diags
           /\ errorFlag' = r.err
    /\ pc' = "enum_done"
    /\ UNCHANGED <<func, sema, dangling, leaks, nstmts, visited, last, declared,
                   freed, returned, typeVars, struct, expr>>

InitEnum ==
    /\ pc = "enum"
    /\ \E underlying \in Underlyings :
          \E vals \in SeqsOf(Enumerators, 0, MaxEnumerators) :
             enum = [state |-> NotAnalysed, underlying |-> underlying,
                     enumerators |-> vals, declared |-> {}, returned |-> FALSE,
                     result |-> FALSE, diags |-> {}, err |-> FALSE]
    /\ struct = NoStruct
    /\ OtherIdle

NextEnum == AnalyseEnumType

SpecEnum == InitEnum /\ [][NextEnum]_vars

-----------------------------------------------------------------------------
(* The OverloadSet case of Analyse(Expr** ).                               *)

\* Most overloads of an overload set.
MaxOverloads == 3

\* Most parameters of an overload.
MaxOverloadParams == 2

OverloadParamTypes == {"int", "bool"}

\* Type::Equal on the parameter types of this model.
TypeEqual(a, b) == a = b

\* The variables no analysis of a lone expression touches.
ExprAlone ==
    /\ BodyIdle
    /\ TypeIdle
    /\ struct = NoStruct
    /\ enum = NoEnum

\* Where the comparison loop over two parameter lists of one length
\* stops: the number of leading parameters that are equal.
FirstUnequal(oi_params, oj_params) ==
    IF \E k \in 1 .. Len(oi_params) : ~TypeEqual(oi_params[k], oj_params[k])
    THEN (CHOOSE k \in 1 .. Len(oi_params) :
             /\ ~TypeEqual(oi_params[k], oj_params[k])
             /\ \A l \in 1 .. k - 1 : TypeEqual(oi_params[l], oj_params[l])) - 1
    ELSE Len(oi_params)

\* The pairs of overloads the loop reports.
ReportedOverloads(os) ==
    {p \in (1 .. Len(os)) \X (1 .. Len(os)) :
        /\ p[1] < p[2]
        /\ Len(os[p[1]]) = Len(os[p[2]])
        /\ FirstUnequal(os[p[1]], os[p[2]]) # Len(os[p[1]])}

AnalyseOverloadSet ==
    /\ pc = "overloads"
    /\ LET reported == ReportedOverloads(expr.overloads)
           st == IF reported # {}
                 THEN Error([diags |-> {}, err |-> errorFlag], "same_parameter_types")
                 ELSE [diags |-> {}, err |-> errorFlag]
       IN  /\ expr' = [expr EXCEPT !.state = IF reported # {} THEN Errored ELSE Done]
           /\ diags' = st.diags
           /\ errorFlag' = st.err
    /\ pc' = "overloads_done"
    /\ UNCHANGED <<func, sema, dangling, leaks, nstmts, visited, last, declared,
                   freed, returned, typeVars, struct, enum>>

InitOverloads ==
    /\ pc = "overloads"
    /\ \E os \in SeqsOf(SeqsOf(OverloadParamTypes, 0, MaxOverloadParams), 1, MaxOverloads) :
          expr = [kind |-> "OverloadSet", overloads |-> os, state |-> InProgress]
    /\ diags = {}
    /\ errorFlag = FALSE
    /\ ExprAlone

NextOverloads == AnalyseOverloadSet

SpecOverloads == InitOverloads /\ [][NextOverloads]_vars

-----------------------------------------------------------------------------
(* Conversions: Sema::ConvertImpl in its two modes, on one expression.     *)
(* A type is the sequence of its constructors from the outside in:         *)
(* <<"ref", "arr2", "int">> is a reference to an array of two int.         *)

\* The types without element: void, bool, the integer types, the function
\* types int() and int(int), an enum, and a type whose analysis failed.
IntegerTypes == {"int", "i8", "u8", "i16", "u16"}

AtomTypes == {"void", "bool", "fn0", "fn1", "enum", "err"} \cup IntegerTypes

T(name) == <<name>>

RefTo(t) == <<"ref">> \o t

PtrTo(t) == <<"ptr">> \o t

ArrOf(n, t) == <<n>> \o t

elem(t) == Tail(t)

VoidPtr == PtrTo(T("void"))

\* The types conversions are tried between.
ConvTypes ==
    {T(a) : a \in AtomTypes}
    \cup {RefTo(T("int")), RefTo(T("fn0")), RefTo(ArrOf("arr2", T("int")))}
    \cup {PtrTo(T("int")), VoidPtr, PtrTo(T("fn0")), PtrTo(T("fn1")),
          PtrTo(ArrOf("arr2", T("int")))}
    \cup {ArrOf("arr2", T("int")), ArrOf("arr4", T("int"))}

type_errored(t) == Head(t) = "err"

is_void(t) == t = T("void")

is_bool(t) == t = T("bool")

is_enum(t) == t = T("enum")

is_ref(t) == Head(t) = "ref"

is_pointer(t) == Head(t) = "ptr"

is_array(t) == Head(t) \in {"arr2", "arr4"}

dimension(t) == IF Head(t) = "arr2" THEN 2 ELSE 4

is_func(t) == Head(t) \in {"fn0", "fn1"}

\* Type::is_integer(include_bool).
is_integer_type(t, include_bool) ==
    Head(t) \in IntegerTypes \/ (include_bool /\ is_bool(t))

is_unsigned_int(t) == Head(t) \in {"u8", "u16"}

\* Type::size in bits, of the types whose size the conversions ask for.
size_in_bits(t) ==
    CASE Head(t) \in {"i8", "u8", "bool"} -> 8
      [] Head(t) \in {"i16", "u16"} -> 16
      [] Head(t) = "arr2" -> 128
      [] Head(t) = "arr4" -> 256
      [] Head(t) = "void" -> 0
      [] OTHER -> 64

RECURSIVE Pow2(_)
Pow2(n) == IF n = 0 THEN 1 ELSE 2 * Pow2(n - 1)

\* utils::MaxBitValue: the greatest value of that many bits.
MaxBitValue(bits) == Pow2(bits) - 1

\* Whether the function type takes no argument.
no_params(t) == Head(t) = "fn0"

\* WrapWithCast with a cast kind that sema creates: a new CastExpr around
\* the expression, analysed by AnalyseCast (lines 1848-1852).
WrapWithCast(e, type, kind) ==
    [e EXCEPT !.node = "Cast", !.type = type,
              !.lvalue = (kind = "ReferenceToLValue"),
              !.wraps = Append(@, kind)]

InsertImplicitCast(e, ty) == WrapWithCast(e, ty, "ImplicitCast")

\* Sema::LValueToRValue.
LValueToRValue(e, strip_ref) ==
    IF e.errored THEN e
    ELSE LET e1 == IF e.lvalue THEN WrapWithCast(e, e.type, "LValueToRValueConv") ELSE e
         IN  IF strip_ref /\ is_ref(e1.type)
             THEN WrapWithCast(WrapWithCast(e1, elem(e1.type), "ReferenceToLValue"),
                               elem(e1.type), "LValueToRValueConv")
             ELSE e1

\* Sema::Deproceduring: whether it applies, and the call it inserts, whose
\* type is the return type int of the function.
Deprocedures(e) ==
    /\ is_func(e.type) \/ (is_pointer(e.type) /\ is_func(elem(e.type)))
    /\ e.node \notin {"Decl", "Block"}
    /\ no_params(IF is_func(e.type) THEN e.type ELSE elem(e.type))

Deproceduring(e) ==
    IF Deprocedures(e)
    THEN [e EXCEPT !.node = "Call", !.type = T("int"), !.lvalue = FALSE,
                   !.wraps = Append(@, "Call")]
    ELSE e

TypesContainErrors == -2

ConversionImpossible == -1

NoOp == 0

\* What ConvertImpl answers: the score, and the expression in *expr_ptr.
Answer(score, e) == [score |-> score, e |-> e]

\* ConvertImpl from the integer conversions on (lines 167-231); score is
\* the local variable of that name.
ConvertIntegers(perform, e, to, score) ==
    LET from == e.type
        cast == IF perform THEN InsertImplicitCast(e, to) ELSE e
    IN  IF \/ is_integer_type(from, FALSE) /\ is_bool(to)
           \/ is_bool(from) /\ is_integer_type(to, FALSE)
        THEN Answer(1 + score, cast)
        ELSE IF is_integer_type(from, FALSE) /\ is_integer_type(to, FALSE)
        THEN IF e.value.known
             THEN IF e.value.v < 0 /\ is_unsigned_int(to)
                  THEN Answer(ConversionImpossible, e)
                  ELSE IF /\ is_unsigned_int(from)
                          /\ size_in_bits(to) < 64
                          /\ e.value.v > MaxBitValue(size_in_bits(to))
                  THEN Answer(ConversionImpossible, e)
                  ELSE Answer(1 + score,
                              IF perform
                              THEN [cast EXCEPT !.node = "Constant",
                                                !.wraps = Append(@, "Constant")]
                              ELSE e)
             ELSE IF size_in_bits(from) <= size_in_bits(to)
             THEN Answer(1 + score, cast)
             ELSE Answer(ConversionImpossible, e)
        ELSE IF Deprocedures(e) THEN Answer(1 + score, Deproceduring(e))
        ELSE Answer(ConversionImpossible, e)

\* ConvertImpl from the function-to-pointer conversion to the array
\* conversions (lines 103-157).
ConvertValues(perform, e0, to, score) ==
    LET cast(x) == IF perform THEN InsertImplicitCast(x, to) ELSE x
    IN  IF is_func(e0.type) /\ is_pointer(to) /\ elem(to) = e0.type
        THEN Answer(NoOp, cast(e0))
        ELSE IF Deprocedures(e0) THEN Answer(1 + score, Deproceduring(e0))
        ELSE LET e == e0
                 from == e.type
             IN  IF from = to THEN Answer(NoOp, e)
                 ELSE IF /\ is_pointer(from) /\ is_pointer(to)
                         /\ \/ is_array(elem(from)) /\ elem(elem(from)) = elem(to)
                            \/ to = VoidPtr
                 THEN Answer(1 + score, cast(e))
                 ELSE IF is_array(from) /\ is_array(to)
                 THEN IF dimension(from) > dimension(to)
                      THEN Answer(ConversionImpossible, e)
                      ELSE Answer(1 + score, cast(e))
                 ELSE ConvertIntegers(perform, e, to, score)

\* ConvertImpl from the reference binding to the reference strip (lines
\* 69-101).
ConvertReferences(perform, e, to) ==
    IF is_ref(to) /\ e.type = elem(to)
    THEN IF e.lvalue
         THEN Answer(NoOp, IF perform THEN WrapWithCast(e, to, "LValueToReference") ELSE e)
         ELSE Answer(ConversionImpossible, e)
    ELSE LET score == IF e.lvalue THEN 1 ELSE 0
             e1 == IF perform THEN LValueToRValue(e, FALSE) ELSE e
         IN  IF is_ref(e1.type) /\ is_ref(to)
             THEN IF e1.type = to THEN Answer(NoOp, e1)
                  ELSE IF /\ is_array(elem(e1.type))
                          /\ elem(elem(e1.type)) = elem(to)
                  THEN Answer(1 + score, IF perform THEN InsertImplicitCast(e1, to) ELSE e1)
                  ELSE Answer(ConversionImpossible, e1)
             ELSE IF is_ref(e1.type)
             THEN ConvertValues(perform,
                                IF perform THEN LValueToRValue(e1, TRUE) ELSE e1,
                                to, score + 1)
             ELSE ConvertValues(perform, e1, to, score)

\* ConvertImpl with the conversions to void and to the same type after
\* the others.
ConvertImplExpr_IdentityLast(perform, e, to) ==
    IF type_errored(e.type) \/ type_errored(to) THEN Answer(TypesContainErrors, e)
    ELSE LET r == ConvertReferences(perform, e, to)
         IN  IF r.score >= 0 THEN r
             ELSE IF is_void(to) \/ r.e.type = to THEN Answer(NoOp, r.e)
             ELSE r

\* Sema::ConvertImpl<PerformConversion>(expr_ptr, to).
ConvertImplExpr(perform, e, to) ==
    IF type_errored(e.type) \/ type_errored(to) THEN Answer(TypesContainErrors, e)
    ELSE IF is_void(to) THEN Answer(NoOp, e)
    ELSE IF e.type = to THEN Answer(NoOp, e)
    ELSE ConvertReferences(perform, e, to)

\* Sema::TryConvert.
TryConvert(e, to) == ConvertImplExpr(FALSE, e, to)

\* The values of the integer constants converted.
ConstantValues == {-1, 200, 300}

NoValue == [known |-> FALSE, v |-> 0]

\* Whether a value is one of the type; the values of this model all fit
\* 32 bits.
Representable(v, t) ==
    IF size_in_bits(t) >= 32 THEN is_unsigned_int(t) => 0 <= v
    ELSE IF is_unsigned_int(t)
    THEN 0 <= v /\ v <= MaxBitValue(size_in_bits(t))
    ELSE -Pow2(size_in_bits(t) - 1) <= v /\ v <= Pow2(size_in_bits(t) - 1) - 1

\* The expressions converted: references, declarations and blocks of any
\* type, lvalues or not, and integer literals, whose value is known.
ConvExprs ==
    [node : {"NameRef", "Decl", "Block"}, type : ConvTypes, lvalue : BOOLEAN,
     value : {NoValue}, errored : {FALSE}, wraps : {<< >>}]
    \cup {[node |-> "Literal", type |-> T(t), lvalue |-> FALSE,
           value |-> [known |-> TRUE, v |-> v], errored |-> FALSE, wraps |-> << >>] :
             <<t, v>> \in {p \in IntegerTypes \X ConstantValues :
                              Representable(p[2], T(p[1]))}}

Converted(r) ==
    /\ expr' = [expr EXCEPT !.e = r.e, !.score = r.score]
    /\ pc' = "convert_done"
    /\ UNCHANGED <<bodyVars, typeVars, struct, enum>>

\* ConvertImpl<true>, as Sema::Convert calls it.
ConvertCall ==
    /\ pc = "convert"
    /\ expr.perform
    /\ Converted(ConvertImplExpr(TRUE, expr.e, expr.to))

TryConvertCall ==
    /\ pc = "convert"
    /\ ~expr.perform
    /\ Converted(TryConvert(expr.e, expr.to))

InitConvert ==
    /\ pc = "convert"
    /\ \E e \in ConvExprs, to \in ConvTypes, perform \in BOOLEAN :
          expr = [kind |-> "Convert", perform |-> perform, from |-> e, to |-> to,
                  e |-> e, score |-> 0]
    /\ diags = {}
    /\ errorFlag = FALSE
    /\ ExprAlone

NextConvert ==
    \/ ConvertCall
    \/ TryConvertCall

SpecConvert == InitConvert /\ [][NextConvert]_vars

-----------------------------------------------------------------------------
(* Explicit casts: Sema::AnalyseCast on `operand as T` and `operand as! T`. *)

\* The types of the operands and the types cast to: all of them analysed.
CastTypes == ConvTypes \ {T("err")}

CastOperands == {e \in ConvExprs : e.type \in CastTypes}

\* HardCast without its test: the cast is let through in both forms.
HardCast_Silent(c, st) == st

\* The lambda HardCast: an error unless the cast is a hard cast.
HardCast(c, st) ==
    IF ~c.hard THEN Error(st, "unsafe_cast") ELSE st

\* Sema::Convert on an expression of this model: whether it converts, and
\* the expression afterwards.
ConvertExpr(e, to) ==
    IF e.errored THEN [ok |-> TRUE, e |-> e]
    ELSE LET r == ConvertImplExpr(TRUE, e, to)
         IN  [ok |-> r.score >= 0, e |-> r.e]

\* Sema::AnalyseCast on a cast written in the source, whose operand
\* analyses without error; st carries the diagnostics.
AnalyseCast(c, st) ==
    LET conv == ConvertExpr(c.operand, c.to)
        c1 == [c EXCEPT !.operand = conv.e, !.converted = conv.ok]
        from == conv.e.type
        to == c.to
    IN  IF conv.ok THEN [c |-> c1, st |-> st]
        ELSE IF is_ref(to)
        THEN [c |-> c1, st |-> Error(st, "rvalue_to_reference")]
        ELSE IF (is_integer_type(from, TRUE) \/ is_enum(from)) /\ is_integer_type(to, TRUE)
        THEN [c |-> c1, st |-> st]
        ELSE IF is_pointer(from) /\ is_integer_type(to, TRUE)
        THEN [c |-> c1, st |-> st]
        ELSE IF is_integer_type(from, TRUE) /\ is_enum(to)
        THEN [c |-> c1, st |-> HardCast(c, st)]
        ELSE IF is_pointer(to) /\ (is_integer_type(from, FALSE) \/ is_pointer(from))
        THEN [c |-> c1, st |-> HardCast(c, st)]
        ELSE IF size_in_bits(from) = size_in_bits(to) /\ c.hard
        THEN [c |-> c1, st |-> st]
        ELSE [c |-> c1, st |-> Error(st, "invalid_cast")]

AnalyseCastExpr ==
    /\ pc = "cast"
    /\ LET r == AnalyseCast(expr, [diags |-> {}, err |-> errorFlag])
       IN  /\ expr' = [r.c EXCEPT !.state = Done]
           /\ diags' = r.st.diags
           /\ errorFlag' = r.st.err
    /\ pc' = "cast_done"
    /\ UNCHANGED <<func, sema, dangling, leaks, nstmts, visited, last, declared,
                   freed, returned, typeVars, struct, enum>>

InitCast ==
    /\ pc = "cast"
    /\ \E e \in CastOperands, to \in CastTypes, hard \in BOOLEAN :
          expr = [kind |-> "Cast", hard |-> hard, operand |-> e, to |-> to,
                  converted |-> FALSE, state |-> InProgress]
    /\ diags = {}
    /\ errorFlag = FALSE
    /\ ExprAlone

NextCast == AnalyseCastExpr

SpecCast == InitCast /\ [][NextCast]_vars

-----------------------------------------------------------------------------
(* A NameRef that the scopes do not resolve: the spelling search of        *)
(* Sema::AnalyseNameRef.                                                   *)

MaxSymbols == 3

\* The names of the declarations the scopes may hold.
SymbolNames == {"fas", "bar", "ba", "abcd", "hello"}

\* The names a NameRef may be typed with.
TypedNames == {"bas", "bar", "acbd", "q"}

\* scope->all_symbols_recursive(): the declarations in the order the
\* search meets them, none of them named as the NameRef is.
AllSymbols(name) ==
    {syms \in SeqsOf(SymbolNames \ {name}, 0, MaxSymbols) :
        \A i, j \in 1 .. Len(syms) : i # j => syms[i] # syms[j]}

\* The distances the search asks for, computed once.
SpellTable ==
    [p \in TypedNames \X SymbolNames |->
        optimal_string_alignment_distance(Chars(p[1]), Chars(p[2]))] @@ << >>

RECURSIVE LeastDistance(_, _, _, _)
\* The loop over all_symbols_recursive(): a declaration replaces the one
\* kept only when it is strictly closer; nothing is kept before the first
\* one (least_distance is size_t(-1)).
LeastDistance(name, syms, i, least) ==
    IF i > Len(syms) THEN least
    ELSE LET distance == SpellTable[<<name, syms[i]>>]
         IN  IF least.decl = NoDecl \/ distance < least.distance
             THEN LeastDistance(name, syms, i + 1,
                                [decl |-> syms[i], distance |-> distance])
             ELSE LeastDistance(name, syms, i + 1, least)

\* The test of the automatic spelling correction.
AutoSpellcheck(name, least) ==
    /\ least.decl # NoDecl
    /\ least.distance = 1
    /\ Len(Chars(name)) > 2
    /\ Len(Chars(name)) = Len(Chars(least.decl))

\* The notes attached to the error 'Unknown symbol'.
UnknownSymbolNotes(r, least) ==
    LET short_name == least.decl # NoDecl /\ Len(Chars(least.decl)) < 5
    IN  (IF r.top_level THEN {"exists_at_top_level"} ELSE {})
        \cup (IF least.decl # NoDecl /\ (~short_name \/ least.distance <= 1)
              THEN {"maybe_you_meant"} ELSE {})

\* Sema::AnalyseNameRef when the lookup found no symbol; st carries the
\* diagnostics.
AnalyseUnresolvedNameRef(r, st) ==
    IF r.imported
    THEN [r |-> [r EXCEPT !.target = "module", !.state = Done], st |-> st]
    ELSE LET least == LeastDistance(r.name, r.syms, 1,
                                    [decl |-> NoDecl, distance |-> 0])
         IN  IF AutoSpellcheck(r.name, least)
             THEN [r |-> [r EXCEPT !.target = least.decl, !.state = Done,
                                   !.notes = {"declared_here"}, !.meant = least.decl],
                   st |-> Warning(st, "treating_as")]
             ELSE [r |-> [r EXCEPT !.state = Errored,
                                   !.notes = UnknownSymbolNotes(r, least),
                                   !.meant = least.decl],
                   st |-> Error(st, "unknown_symbol")]

AnalyseUnresolved ==
    /\ pc = "nameref"
    /\ LET a == AnalyseUnresolvedNameRef(expr, [diags |-> {}, err |-> errorFlag])
       IN  /\ expr' = a.r
           /\ diags' = a.st.diags
           /\ errorFlag' = a.st.err
    /\ pc' = "nameref_done"
    /\ UNCHANGED <<func, sema, dangling, leaks, nstmts, visited, last, declared,
                   freed, returned, typeVars, struct, enum>>

InitNameRef ==
    /\ pc = "nameref"
    /\ \E name \in TypedNames, imported \in BOOLEAN, top_level \in BOOLEAN :
          \E syms \in AllSymbols(name) :
             expr = [kind |-> "NameRef", name |-> name, syms |-> syms,
                     imported |-> imported, top_level |-> top_level,
                     target |-> NoDecl, state |-> InProgress,
                     notes |-> {}, meant |-> NoDecl]
    /\ diags = {}
    /\ errorFlag = FALSE
    /\ ExprAlone

NextNameRef == AnalyseUnresolved

SpecNameRef == InitNameRef /\ [][NextNameRef]_vars

-----------------------------------------------------------------------------
(* Function bodies in which a return may have no operand.                  *)

\* What reading `r->value()->type()` through the null operand may do
\* (undefined behaviour): the process dies, or the read yields something
\* and analysis goes on.
NullOperandOutcomes == {"crash", "continues"}

\* The Return case of Sema::Analyse(Expr** ) for `return;` when the reads
\* through the null operand went on.
AnalyseReturnWithoutOperand(st) ==
    IF func.ret = "void" THEN st
    ELSE Error(st, "non_void_must_return_a_value")

AnalyseBareReturnChild(outcome, isLast) ==
    /\ MayAnalyseChild(isLast)
    /\ IF outcome = "crash"
       THEN /\ pc' = "crash"
            /\ UNCHANGED <<bodyVars, typeVars, struct, enum, expr>>
       ELSE /\ BlockChild(AnalyseReturnWithoutOperand(Snapshot), "Return", Done, "void", isLast)
            /\ UNCHANGED visited

NextReturn ==
    \/ NextBody
    \/ \E outcome \in NullOperandOutcomes, isLast \in BOOLEAN :
          AnalyseBareReturnChild(outcome, isLast)

SpecReturn == InitBody /\ [][NextReturn]_vars

-----------------------------------------------------------------------------
(* Function bodies in which a declaration may have an initialiser, a       *)
(* NameRef; the variable expr holds that NameRef once analysed.  The       *)
(* declarations a NameRef reaches before their own statement have none.    *)

\* The VarDecl case of Analyse(Expr** ) for `d : T = n`: the declaration is
\* InProgress while its initialiser is analysed.
AnalyseVarDeclWithInit(st, d, n, cand) ==
    IF st.sema[d] # NotAnalysed THEN st
    ELSE LET st0 == [st EXCEPT !.sema[d] = InProgress]
             st1 == AnalyseNameRef(st0, n, cand)
             st2 == IF ~Convert(st1.ref.state, st1.ref.type, func.type[d])
                    THEN Error(st1, "initialiser_not_convertible")
                    ELSE st1
             st3 == IF func.type[d] = "dyn"
                    THEN [st2 EXCEPT !.dangling = Append(@, d)]
                    ELSE st2
         IN  [st3 EXCEPT !.sema[d] = Done, !.declared = @ \cup {d}]

AnalyseVarDeclWithInitChild(d, n, cand, isLast) ==
    /\ MayAnalyseChild(isLast)
    /\ d \in Locals \ visited
    /\ sema[d] = NotAnalysed
    /\ visited' = visited \cup {d}
    /\ LET st == AnalyseVarDeclWithInit(Snapshot, d, n, cand)
           st1 == IF ~isLast THEN Discard(st, "VarDecl", st.sema[d], func.type[d]) ELSE st
       IN  /\ sema' = st1.sema
           /\ dangling' = st1.dangling
           /\ diags' = st1.diags
           /\ leaks' = st1.leaks
           /\ errorFlag' = st1.err
           /\ declared' = st1.declared
           /\ freed' = st1.freed
           /\ returned' = st1.returned
           /\ expr' = [kind |-> "NameRef", name |-> n, of |-> d,
                       target |-> st.ref.target, type |-> st.ref.type,
                       state |-> st.ref.state]
           /\ last' = [kind |-> "VarDecl", target |-> NoDecl,
                       type |-> func.type[d], state |-> st.sema[d],
                       wasFreed |-> FALSE, result |-> ok(st.sema[d]),
                       tail |-> "none", errAtCheck |-> FALSE]
    /\ nstmts' = nstmts + 1
    /\ pc' = IF isLast THEN "end" ELSE "body"
    /\ UNCHANGED <<func, typeVars, struct, enum>>

NextInitialiser ==
    \/ AnalyseParameters
    \/ \E d \in Decls, isLast \in BOOLEAN : AnalyseVarDeclChild(d, isLast)
    \/ \E d \in Decls, n \in RefNames, isLast \in BOOLEAN :
          \E cand \in LeastDistanceDecls(n) : AnalyseVarDeclWithInitChild(d, n, cand, isLast)
    \/ FinishFunctionBody

SpecInitialiser == InitBody /\ [][NextInitialiser]_vars

-----------------------------------------------------------------------------
(* Analyse(Type** ) on a struct, a union or a sum type, seen in two steps: *)
(* up to the return of the analysis of its first member, and from there.   *)
(* The slot is the root of the family, or (beside a leaf) the type of the   *)
(* declaration S whose analysis as an expression analyses its type.        *)

\* The types whose case loops over members and has a first one to analyse.
HasMembersLoop(ts, id) ==
    /\ ts[id].kind \in {"Sum", "Union", "Struct"}
    /\ ts[id].state = NotAnalysed
    /\ Len(ts[id].members) >= (IF ts[id].kind = "Sum" THEN 2 ELSE 1)

\* The slot is the type of a declaration: Analyse(Expr** ) marks the
\* declaration InProgress before it analyses the type.
DeclInProgress(h, id) ==
    LET names == {name \in DOMAIN h.decls :
                     h.decls[name].type = id /\ h.decls[name].state = NotAnalysed}
    IN  IF names = {} THEN h
        ELSE [h EXCEPT !.decls[CHOOSE name \in names : TRUE].state = InProgress]

\* The end of Analyse(Expr** ) for that declaration.
DeclDone(h, id) ==
    LET names == {name \in DOMAIN h.decls :
                     h.decls[name].type = id /\ h.decls[name].state = InProgress}
    IN  IF names = {} THEN h
        ELSE [h EXCEPT !.decls[CHOOSE name \in names : TRUE].state = Done]

\* Analyse(Type** ) from its start to the return of `Analyse(&member.type)`
\* for the first member.
AnalyseFirstMember(h, id) ==
    LET h0 == SetState(h, id, InProgress)
        r == AnalyseType(h0, h0.types[id].members[1])
    IN  [r.h EXCEPT !.types[id].members[1] = r.id]

BeginMembers ==
    /\ pc = "members"
    /\ \E h \in {AnalyseFirstMember(DeclInProgress(TypeHeap, slot), slot)} :
          /\ types' = h.types
          /\ tdecls' = h.decls
          /\ diags' = h.diags
          /\ errorFlag' = h.err
    /\ pc' = "member_analysed"
    /\ UNCHANGED <<slot, orig, result, func, sema, dangling, leaks, nstmts, visited,
                   last, declared, freed, returned, struct, enum, expr>>

\* The rest of the case and the tail of Analyse(Type** ); the first member
\* is analysed already, so its analysis returns at once.
FinishMembers ==
    /\ pc = "member_analysed"
    /\ \E r \in {TypeDone(AnalyseMembers(TypeHeap, slot, 1), slot)} :
          \E h \in {DeclDone(r.h, slot)} :
             /\ types' = h.types
             /\ tdecls' = h.decls
             /\ result' = r.ok
             /\ diags' = h.diags
             /\ errorFlag' = h.err
    /\ pc' = "members_done"
    /\ UNCHANGED <<slot, orig, func, sema, dangling, leaks, nstmts, visited,
                   last, declared, freed, returned, struct, enum, expr>>

InitMembers ==
    /\ pc = "members"
    /\ \E shape \in Shapes :
          LET b == BuildType(shape)
          IN  /\ types = b.types
              /\ orig = b.root
              /\ slot \in {id \in {b.root} \cup (IF shape.kind = "Leaf"
                                                THEN {BaseDecls["S"].type} ELSE {}) :
                              HasMembersLoop(b.types, id)}
    /\ tdecls = BaseDecls
    /\ result = FALSE
    /\ diags = {}
    /\ errorFlag = FALSE
    /\ BodyIdle
    /\ struct = NoStruct
    /\ enum = NoEnum
    /\ expr = NoExpr

NextMembers == BeginMembers \/ FinishMembers

SpecMembers == InitMembers /\ [][NextMembers]_vars

-----------------------------------------------------------------------------
(* optimal_string_alignment_distance on its own, over all short strings.   *)

MaxOsaLen == 3

OsaAlphabet == {"a", "b"}

OsaStrings == SeqsOf(OsaAlphabet, 0, MaxOsaLen)

ComputeDistance ==
    /\ pc = "osa"
    /\ expr' = [expr EXCEPT !.out = optimal_string_alignment_distance(expr.s, expr.t),
                            !.returned = TRUE]
    /\ pc' = "osa_done"
    /\ UNCHANGED <<bodyVars, typeVars, struct, enum>>

InitOsa ==
    /\ pc = "osa"
    /\ \E s \in OsaStrings, t \in OsaStrings :
          expr = [kind |-> "Osa", s |-> s, t |-> t, out |-> 0, returned |-> FALSE]
    /\ diags = {}
    /\ errorFlag = FALSE
    /\ ExprAlone

NextOsa == ComputeDistance

SpecOsa == InitOsa /\ [][NextOsa]_vars

-----------------------------------------------------------------------------
(* Sema::AnalyseModule: the imports are loaded, then the signatures of the *)
(* functions are analysed, then their bodies.  The variable expr holds the *)
(* module under analysis.                                                  *)

MaxImports == 2

MaxIncludeDirs == 2

MaxFunctions == 2

\* The files looked for in one include directory, in the order of the
\* three try_get_metadata_blob_from_ functions.
GmetaPaths == <<"name.gmeta">>

ObjectPaths == <<"name.o", "name.obj", "name.a", "libname.o", "libname.obj", "libname.a">>

AssemblyPaths == <<"name.s">>

\* paths_tried.push_back for the first k of the paths of one directory.
PushBack(tried, dir, paths, k) ==
    tried \o [i \in 1 .. k |-> [dir |-> dir, path |-> paths[i]]]

\* The two loops over the functions in the other order.
ModulePhase_BodiesFirst(m) ==
    IF m.import <= m.nimports THEN "imports"
    ELSE IF Cardinality(m.bodies) < m.nfunctions THEN "bodies"
    ELSE IF Cardinality(m.signatures) < m.nfunctions THEN "signatures"
    ELSE "module_done"

\* The place AnalyseModule is at once the module m is as given: in the
\* loop over the imports, over the signatures or over the bodies.
ModulePhase(m) ==
    IF m.import <= m.nimports THEN "imports"
    ELSE IF Cardinality(m.signatures) < m.nfunctions THEN "signatures"
    ELSE IF Cardinality(m.bodies) < m.nfunctions THEN "bodies"
    ELSE "module_done"

\* Without the break: the loop over the include directories goes on after
\* a load.
Loaded_NoBreak(m) ==
    [m EXCEPT !.loaded = TRUE, !.dir = @ + 1, !.stage = "gmeta"]

\* One of the three functions returned true: `if (loaded) break;`.
Loaded(m) ==
    [m EXCEPT !.loaded = TRUE, !.stage = "loaded"]

\* try_get_metadata_blob_from_gmeta in the current include directory; the
\* file is absent, or deserialises, or does not, or fails an assertion.
TryGmeta(outcome) ==
    /\ pc = "imports"
    /\ expr.stage = "gmeta"
    /\ expr.dir <= expr.ndirs
    /\ LET m == [expr EXCEPT !.tried = PushBack(@, expr.dir, GmetaPaths, 1)]
       IN  CASE outcome = "absent" ->
                   /\ expr' = [m EXCEPT !.stage = "object"]
                   /\ pc' = "imports"
             [] outcome = "not_deserialised" ->
                   /\ expr' = [m EXCEPT !.stage = "object"]
                   /\ pc' = "imports"
             [] outcome = "deserialised" ->
                   /\ expr' = Loaded(m)
                   /\ pc' = "imports"
             [] outcome = "assert" ->
                   /\ expr' = m
                   /\ pc' = "abort"
    /\ UNCHANGED <<bodyVars, typeVars, struct, enum>>

\* try_get_metadata_blob_from_object: the first of the six paths that
\* exists is the k-th (none if k = 0); it is read and deserialised, and the
\* function returns whatever the result.
TryObject(k, outcome) ==
    /\ pc = "imports"
    /\ expr.stage = "object"
    /\ LET n == IF k = 0 THEN Len(ObjectPaths) ELSE k
           m == [expr EXCEPT !.tried = PushBack(@, expr.dir, ObjectPaths, n)]
       IN  CASE k = 0 \/ outcome = "not_deserialised" ->
                   /\ expr' = [m EXCEPT !.stage = "assembly"]
                   /\ pc' = "imports"
             [] k # 0 /\ outcome = "deserialised" ->
                   /\ expr' = Loaded(m)
                   /\ pc' = "imports"
             [] k # 0 /\ outcome = "assert" ->
                   /\ expr' = m
                   /\ pc' = "abort"
    /\ UNCHANGED <<bodyVars, typeVars, struct, enum>>

\* try_get_metadata_blob_from_assembly: an assembly file that exists is not
\* read (LCC_TODO); without one the next include directory is searched.
TryAssembly(exists) ==
    /\ pc = "imports"
    /\ expr.stage = "assembly"
    /\ LET m == [expr EXCEPT !.tried = PushBack(@, expr.dir, AssemblyPaths, 1)]
       IN  IF exists
           THEN /\ expr' = m
                /\ pc' = "abort"
           ELSE /\ expr' = [m EXCEPT !.dir = @ + 1, !.stage = "gmeta"]
                /\ pc' = "imports"
    /\ UNCHANGED <<bodyVars, typeVars, struct, enum>>

\* The end of the loop over the include directories: the next import if
\* this one is loaded (or the loops over the functions after the last
\* import), the error and std::exit(1) if it is not.
EndOfIncludeDirs ==
    /\ pc = "imports"
    /\ expr.stage = "loaded" \/ (expr.stage = "gmeta" /\ expr.dir > expr.ndirs)
    /\ IF expr.loaded
       THEN LET m == [expr EXCEPT !.import = @ + 1, !.dir = 1, !.stage = "gmeta",
                                  !.tried = <<>>, !.loaded = FALSE]
            IN  /\ expr' = m
                /\ pc' = ModulePhase(m)
                /\ UNCHANGED <<diags, errorFlag>>
       ELSE /\ expr' = expr
            /\ pc' = "exit"
            /\ diags' = diags \cup {"could_not_find_imported_module"}
            /\ errorFlag' = TRUE
    /\ UNCHANGED <<func, sema, dangling, leaks, nstmts, visited, last, declared,
                   freed, returned, typeVars, struct, enum>>

\* One iteration of `for (auto& func : mod.functions())
\* AnalyseFunctionSignature(func);`.
AnalyseSignatureOfNext ==
    /\ pc = "signatures"
    /\ LET m == [expr EXCEPT !.signatures = @ \cup {Cardinality(@) + 1}]
       IN  /\ expr' = m
           /\ pc' = ModulePhase(m)
    /\ UNCHANGED <<bodyVars, typeVars, struct, enum>>

\* One iteration of `for (auto& func : mod.functions())
\* AnalyseFunctionBody(func);`.
AnalyseBodyOfNext ==
    /\ pc = "bodies"
    /\ LET m == [expr EXCEPT !.bodies = @ \cup {Cardinality(@) + 1}]
       IN  /\ expr' = m
           /\ pc' = ModulePhase(m)
    /\ UNCHANGED <<bodyVars, typeVars, struct, enum>>

InitModule ==
    /\ \E ni \in 0 .. MaxImports, nd \in 0 .. MaxIncludeDirs, nf \in 0 .. MaxFunctions :
          /\ expr = [kind |-> "Module", nimports |-> ni, ndirs |-> nd, nfunctions |-> nf,
                     import |-> 1, dir |-> 1, stage |-> "gmeta", tried |-> <<>>,
                     loaded |-> FALSE, signatures |-> {}, bodies |-> {}]
          /\ pc = ModulePhase(expr)
    /\ diags = {}
    /\ errorFlag = FALSE
    /\ ExprAlone

NextModule ==
    \/ \E outcome \in {"absent", "not_deserialised", "deserialised", "assert"} :
          TryGmeta(outcome)
    \/ \E k \in 0 .. Len(ObjectPaths),
          outcome \in {"not_deserialised", "deserialised", "assert"} :
          TryObject(k, outcome)
    \/ \E exists \in BOOLEAN : TryAssembly(exists)
    \/ EndOfIncludeDirs
    \/ AnalyseSignatureOfNext
    \/ AnalyseBodyOfNext

SpecModule == InitModule /\ [][NextModule]_vars

-----------------------------------------------------------------------------
(* The Sizeof and Alignof cases of Sema::Analyse(Expr** ).  The operand is *)
(* an expression of struct type (the variable struct) or one without type. *)

\* Type::size and Type::align of an analysed struct type, in bits as for
\* every type.
StructSizeInBits(s) == s.byte_size * 8

StructAlignInBits(s) == s.alignment * 8

\* The analysis of the operand: a typed expression has its type analysed.
AnalyseOperand(e, s) ==
    IF e.typed THEN AnalyseStruct(s.members) ELSE s

\* The case Sizeof or Alignof: the expression is replaced by an integer
\* literal; `was` remembers what it replaced.
AnalyseSizeofOrAlignof ==
    /\ pc = "sizeof"
    /\ LET s == AnalyseOperand(expr, struct)
           value == IF ~expr.typed THEN 0
                    ELSE IF expr.kind = "Sizeof" THEN StructSizeInBits(s)
                    ELSE StructAlignInBits(s)
       IN  /\ struct' = s
           /\ expr' = [kind |-> "IntegerLiteral", value |-> value,
                       typed |-> expr.typed, was |-> expr.kind]
           /\ diags' = IF expr.typed THEN {} ELSE {"unhandled_expression"}
           /\ errorFlag' = ~expr.typed
    /\ pc' = "sizeof_done"
    /\ UNCHANGED <<func, sema, dangling, leaks, nstmts, visited, last, declared,
                   freed, returned, typeVars, enum>>

InitSizeof ==
    /\ pc = "sizeof"
    /\ \E kind \in {"Sizeof", "Alignof"}, typed \in BOOLEAN :
          expr = [kind |-> kind, value |-> 0, typed |-> typed, was |-> "none"]
    /\ \E members \in SeqsOf({m \in StructMembers : ~m.errored}, 0, MaxStructMembers) :
          struct = [state |-> NotAnalysed, members |-> members,
                    offsets |-> [i \in 1 .. Len(members) |-> 0],
                    alignment |-> 0, byte_size |-> 0]
    /\ enum = NoEnum
    /\ diags = {}
    /\ errorFlag = FALSE
    /\ BodyIdle
    /\ TypeIdle

NextSizeof == AnalyseSizeofOrAlignof

SpecSizeof == InitSizeof /\ [][NextSizeof]_vars

\* Both machines: a function body is analysed, or a type is.
InitReentry == InitBody \/ InitType

NextReentry == NextBody \/ NextType

SpecReentry == InitReentry /\ [][NextReentry]_vars

-----------------------------------------------------------------------------
(* Properties of the analysis of types (specifications SpecType and        *)
(* SpecReentry).                                                            *)

Settled(state) == state \in {Done, Errored}

\* The types a type names directly.
Children(ts, id) ==
    ({ts[id].elem, ts[id].ret} \ {0}) \cup SeqToSet(ts[id].members)

RECURSIVE ReachableFrom(_, _)
\* The types reachable from a set of types.
ReachableFrom(ts, ids) ==
    LET more == ids \cup UNION {Children(ts, id) : id \in ids}
    IN  IF more = ids THEN ids ELSE ReachableFrom(ts, more)

\* C5: whenever Analyse(Type** ) has returned, the type it was called on
\* and the type now in the slot are Done or Errored, never NotAnalysed or
\* InProgress.
C5_AnalyseLeavesDoneOrErrored ==
    pc = "type_done" => Settled(types[orig].state) /\ Settled(types[slot].state)

\* C6: a call of Analyse on an expression or a type whose state is not
\* NotAnalysed changes no node's state, rewrites no slot, emits no
\* diagnostic, and returns whether the node is ok.
C6_ReentryIsNoOp ==
    [][/\ (pc \in {"type", "type_done", "type_again"} /\ types[slot].state # NotAnalysed) =>
             /\ types' = types
             /\ tdecls' = tdecls
             /\ slot' = slot
             /\ diags' = {}
             /\ errorFlag' = errorFlag
             /\ result' = ok(types[slot].state)
        /\ \A d \in Decls :
              (pc = "body" /\ d \in visited' \ visited /\ sema[d] # NotAnalysed) =>
                 /\ sema' = sema
                 /\ dangling' = dangling
                 /\ declared' = declared
                 /\ diags' = {}
                 /\ errorFlag' = errorFlag
                 /\ last'.result = ok(sema[d])]_vars

\* C6 happens: a type is analysed a second time, after an analysis that
\* left it in error and emitted a diagnostic.
C6_Witness ==
    pc = "type_again" /\ diags = {} /\ errorFlag /\ types[slot].state = Errored

\* C7: when Analyse(Type** ) returns ok, the resulting type is Done and no
\* type reachable from it is a Named type.
C7_OkTypeHasNoNamedSubtype ==
    (pc = "type_done" /\ result) =>
        /\ types[slot].state = Done
        /\ \A id \in ReachableFrom(types, {slot}) : types[id].kind # "Named"

\* C8: after a Function type has been analysed, no parameter of it has a
\* function type.
C8_NoParameterOfFunctionType ==
    (pc = "type_done" /\ types[orig].kind = "Function") =>
        \A i \in 1 .. Len(types[orig].members) :
            types[types[orig].members[i]].kind # "Function"

\* C28: a type is not Done before its own case has finished: while the
\* members after the first are not yet analysed and the layout is not yet
\* computed, the struct, union or sum type is not Done, even when it refers
\* to itself through a named member or a pointer.
C28_NotDoneBeforeCaseEnds ==
    pc = "member_analysed" => types[slot].state # Done

-----------------------------------------------------------------------------
(* Properties of the struct layout (specification SpecStruct).             *)

ByteSize(i) == struct.members[i].size \div 8

ByteAlign(i) == struct.members[i].align \div 8

MaxAlign ==
    IF struct.members = << >> THEN 1
    ELSE Max2(1, CHOOSE a \in {ByteAlign(i) : i \in DOMAIN struct.members} :
                    \A j \in DOMAIN struct.members : ByteAlign(j) <= a)

-----------------------------------------------------------------------------
(* Properties of the enumerator values (specification SpecEnum).           *)

\* C10: in an enum with integer underlying type, every enumerator without
\* an initialiser gets the value of the previous enumerator plus 1, or 0 if
\* it is the first.
C10_EnumeratorIsPreviousPlusOne ==
    (pc = "enum_done" /\ is_integer(enum.underlying)) =>
        \A i \in 1 .. Len(enum.enumerators) :
            (enum.enumerators[i].state = Done /\ enum.enumerators[i].init.kind = NoInit) =>
                enum.enumerators[i].value =
                    IF i = 1 THEN 0 ELSE enum.enumerators[i - 1].value + 1

\* C11: after an enum is analysed successfully, every one of its
\* enumerators, with or without an initialiser, is declared in the enum's
\* scope.
C11_EveryEnumeratorDeclared ==
    (pc = "enum_done" /\ enum.result) =>
        \A i \in 1 .. Len(enum.enumerators) :
            enum.enumerators[i].name \in enum.declared

-----------------------------------------------------------------------------
(* Properties of the overload sets (specification SpecOverloads).          *)

SameParameterTypes(a, b) ==
    /\ Len(a) = Len(b)
    /\ \A k \in 1 .. Len(a) : a[k] = b[k]

\* C12: the analysis of an overload set reports an error and marks the set
\* Errored exactly when two of its overloads have the same number of
\* parameters and pairwise equal parameter types.
C12_ErrorIffSameParameterTypes ==
    pc = "overloads_done" =>
        LET clash == \E i, j \in 1 .. Len(expr.overloads) :
                        i < j /\ SameParameterTypes(expr.overloads[i], expr.overloads[j])
        IN  /\ (expr.state = Errored) <=> clash
            /\ (diags # {}) <=> clash

-----------------------------------------------------------------------------
(* Properties of the conversions (specification SpecConvert).              *)

\* C13: converting an expression of a non-errored type to its own type,
\* and to void, returns score 0 and leaves the expression as it was, in the
\* perform mode and in the try mode.
C13_ConvertToSelfAndVoidIsNoOp ==
    (/\ pc = "convert_done"
     /\ ~type_errored(expr.from.type)
     /\ expr.to = expr.from.type \/ is_void(expr.to)) =>
        expr.score = 0 /\ expr.e = expr.from

\* C13 happens: an lvalue of reference type was converted to its own type
\* in the perform mode.
C13_Witness ==
    /\ pc = "convert_done"
    /\ expr.perform
    /\ expr.from.lvalue
    /\ is_ref(expr.from.type)
    /\ expr.to = expr.from.type

\* C14: the score of an allowed conversion is 0 only when nothing was
\* applied; a conversion that applied lvalue-to-rvalue or stripped a
\* reference never returns 0.
C14_ScoreZeroOnlyWithoutWork ==
    (pc = "convert_done" /\ expr.perform /\ expr.score = 0) =>
        /\ "LValueToRValueConv" \notin SeqToSet(expr.e.wraps)
        /\ "ReferenceToLValue" \notin SeqToSet(expr.e.wraps)

\* C15: TryConvert leaves the expression as it was: no node is allocated,
\* nothing is replaced.
C15_TryConvertOnlyScores ==
    (pc = "convert_done" /\ ~expr.perform) => expr.e = expr.from

\* C16: the conversion of an integer constant to an integer type is
\* allowed only if the value is representable in the destination type.
C16_ConstantMustFit ==
    (/\ pc = "convert_done"
     /\ expr.from.value.known
     /\ is_integer_type(expr.to, FALSE)
     /\ expr.to # expr.from.type
     /\ expr.score >= 0) =>
        Representable(expr.from.value.v, expr.to)

\* C29: when Convert returns true for an expression that is not in error
\* and a target type other than void, the expression has the target type
\* afterwards, also when a function without parameters was turned into a
\* call of it.
C29_ConvertedHasTargetType ==
    (/\ pc = "convert_done"
     /\ expr.perform
     /\ ~expr.from.errored
     /\ ~is_void(expr.to)
     /\ expr.score >= 0) =>
        expr.e.type = expr.to

\* C30: for an expression that is not in error, TryConvert returns the
\* score the performing conversion computes.
C30_TryAndPerformAgree ==
    (pc = "convert_done" /\ ~expr.from.errored) =>
        TryConvert(expr.from, expr.to).score
            = ConvertImplExpr(TRUE, expr.from, expr.to).score

-----------------------------------------------------------------------------
(* Properties of the errors of a function body (specification Spec).       *)

\* The user errors of the children of the body: a reference to a freed
\* dynamic array and a return value that does not convert.
UserErrors == {"use_after_free", "return_not_convertible"}

\* C18: a child of the body whose analysis diagnoses a user error is marked
\* Errored, the error flag of the context is set, and analysis goes on.
C18_UserErrorMarksNodeErrored ==
    [][(pc = "body" /\ (diags' \ diags) \cap UserErrors # {}) =>
           /\ last'.state = Errored
           /\ errorFlag'
           /\ pc' \in {"body", "end"}]_vars

\* C24: when AnalyseFunctionBody ends without error for a function that
\* does not return void, the last expression of the body is a return: the
\* one that was there, `return 0` in an empty `main`, or the last expression
\* converted and wrapped.
C24_BodyEndsWithReturn ==
    (pc = "done" /\ ~errorFlag /\ func.ret # "void") =>
        /\ last.tail \in {"return_kept", "return_0_inserted", "wrapped_in_return"}
        /\ last.tail = "return_kept" <=> (nstmts > 0 /\ last.kind = "Return")
        /\ last.tail = "return_0_inserted" <=> (nstmts = 0 /\ func.main)

\* A body whose last expression is not a return ended without error and
\* that expression was wrapped.
C24_Witness ==
    /\ pc = "done"
    /\ ~errorFlag
    /\ func.ret # "void"
    /\ last.kind = "NameRef"
    /\ last.tail = "wrapped_in_return"

\* C26: the analysis of a return without operand always completes: the
\* missing operand is never read through, a void function gets no
\* diagnostic for it and any other function gets 'Non-void function must
\* return a value'.
C26_ReturnWithoutOperandCompletes ==
    /\ pc # "crash"
    /\ (/\ pc \in {"body", "end"}
        /\ last.kind = "Return"
        /\ last.target = NoDecl
        /\ diags \cap {"unknown_symbol", "own_initialiser"} = {}) =>
           /\ func.ret = "void" => diags = {}
           /\ func.ret # "void" => "non_void_must_return_a_value" \in diags

\* The NameRef in expr is the initialiser of the declaration it names.
InOwnInitialiser == expr.kind = "NameRef" /\ expr.name = expr.of

-----------------------------------------------------------------------------
(* Properties of the explicit casts (specification SpecCast).              *)

\* The casts that are hard casts by the code and by the specification.
HardOnlyCast(from, to) ==
    \/ is_integer_type(from, FALSE) /\ is_enum(to)
    \/ is_integer_type(from, FALSE) /\ is_pointer(to)
    \/ is_pointer(from) /\ is_pointer(to)

\* The casts the specification calls hard casts and the code accepts in
\* the soft form.
SoftAlsoCast(from, to) ==
    \/ is_enum(from) /\ is_integer_type(to, FALSE)
    \/ is_pointer(from) /\ is_integer_type(to, FALSE)

\* A reinterpretation between two other types of one size.
EqualSizeCast(from, to) ==
    /\ ~HardOnlyCast(from, to)
    /\ ~SoftAlsoCast(from, to)
    /\ ~is_ref(to)
    /\ ~(is_integer_type(from, TRUE) /\ (is_integer_type(to, TRUE) \/ is_enum(to)))
    /\ ~(is_pointer(from) /\ is_integer_type(to, TRUE))
    /\ size_in_bits(from) = size_in_bits(to)

CastNotConverted == pc = "cast_done" /\ ~expr.converted

-----------------------------------------------------------------------------
(* Properties of the spelling search (specification SpecNameRef).          *)

\* The declarations in scope that could stand for the typed name.
Candidates(r) ==
    {i \in 1 .. Len(r.syms) :
        /\ SpellTable[<<r.name, r.syms[i]>>] = 1
        /\ Len(Chars(r.syms[i])) = Len(Chars(r.name))
        /\ Len(Chars(r.name)) > 2}

Retargeted == expr.target \in SymbolNames /\ expr.state = Done /\ diags = {"treating_as"}

UnknownSymbol == expr.target = NoDecl /\ expr.state = Errored /\ diags = {"unknown_symbol"}

\* C19: an unresolved NameRef is retargeted with a warning exactly when one
\* and only one declaration is at distance 1 with the length of the typed
\* name and that length is over 2; otherwise it is Errored 'Unknown symbol'.
C19_RetargetedIffUniqueCandidate ==
    (pc = "nameref_done" /\ ~expr.imported) =>
        IF Cardinality(Candidates(expr)) = 1 THEN Retargeted ELSE UnknownSymbol

\* C20: `bas` typed where `fas` is the only declaration is the error
\* 'Unknown symbol' with the note 'Maybe you meant fas', Errored and not
\* retargeted.
C20_BasIsUnknownSymbol ==
    (/\ pc = "nameref_done"
     /\ ~expr.imported
     /\ expr.name = "bas"
     /\ expr.syms = <<"fas">>) =>
        /\ UnknownSymbol
        /\ "maybe_you_meant" \in expr.notes
        /\ expr.meant = "fas"

-----------------------------------------------------------------------------
(* Properties of the string distance (specification SpecOsa).              *)

RECURSIVE OsaDistance(_, _, _, _)
\* The Optimal String Alignment distance of the first i characters of s and
\* the first j characters of t, by its defining recurrence.
OsaDistance(s, t, i, j) ==
    IF i = 0 THEN j
    ELSE IF j = 0 THEN i
    ELSE LET cost == IF s[i] # t[j] THEN 1 ELSE 0
             base == Min3(OsaDistance(s, t, i - 1, j) + 1,
                          OsaDistance(s, t, i, j - 1) + 1,
                          OsaDistance(s, t, i - 1, j - 1) + cost)
         IN  IF i > 1 /\ j > 1 /\ s[i] = t[j - 1] /\ s[i - 1] = t[j]
             THEN Min2(base, OsaDistance(s, t, i - 2, j - 2) + 1)
             ELSE base

\* C21: the function returns the Optimal String Alignment distance of its
\* two arguments, whatever their lengths, the empty string included.
C21_ReturnsOsaDistance ==
    pc = "osa_done" =>
        expr.out = OsaDistance(expr.s, expr.t, Len(expr.s), Len(expr.t))

-----------------------------------------------------------------------------
(* Properties of the analysis of a module (specification SpecModule).      *)

\* The paths of one include directory in the order claimed: the gmeta
\* file, the object files, the assembly file.
PathOrder == GmetaPaths \o ObjectPaths \o AssemblyPaths

\* The place of a tried path in the order of the search.
PathRank(e) ==
    ((e.dir - 1) * Len(PathOrder))
        + (CHOOSE i \in 1 .. Len(PathOrder) : PathOrder[i] = e.path)

TriedInOrder(tried) ==
    \A i, j \in 1 .. Len(tried) : i < j => PathRank(tried[i]) < PathRank(tried[j])

\* C22: the paths of an import are tried directory by directory in the
\* order of the include list and, in a directory, gmeta, objects, assembly;
\* the search stops at the first load that succeeds, and no path is tried
\* after it.
C22_FirstLoadWins ==
    [][/\ TriedInOrder(expr'.tried)
       /\ (~expr.loaded /\ expr'.loaded) =>
              /\ expr'.stage = "loaded"
              /\ Len(expr'.tried) > Len(expr.tried)
       /\ expr.loaded => expr'.tried \in {expr.tried, <<>>}]_vars

\* An import was loaded from an object file of the second include
\* directory, after the paths of the first one.
C22_Witness ==
    /\ pc = "imports"
    /\ expr.loaded
    /\ expr.dir = 2
    /\ Len(expr.tried) > Len(PathOrder)
    /\ expr.tried[Len(expr.tried)].path = "name.obj"

\* The functions of the module, by their place in mod.functions().
Functions == 1 .. expr.nfunctions

\* C23: every import is loaded before a signature is analysed, and every
\* signature is analysed before a body is.
C23_ImportsThenSignaturesThenBodies ==
    /\ expr.signatures # {} => expr.import > expr.nimports
    /\ expr.bodies # {} =>
          /\ expr.import > expr.nimports
          /\ expr.signatures = Functions

\* The body of the first function is analysed and the second one's is
\* not yet, in a module with an import.
C23_Witness ==
    /\ pc = "bodies"
    /\ expr.nimports > 0
    /\ expr.bodies = {1}
    /\ expr.nfunctions = 2

-----------------------------------------------------------------------------
(* Properties of Sizeof and Alignof (specification SpecSizeof).            *)

\* C25: a Sizeof (Alignof) of a typed operand is replaced by an integer
\* literal whose value is the size (alignment) of the operand's type in
\* bytes, the unit of a struct's byte_size and alignment.
C25_SizeofIsInBytes ==
    (pc = "sizeof_done" /\ expr.typed) =>
        /\ expr.kind = "IntegerLiteral"
        /\ expr.was = "Sizeof" => expr.value = struct.byte_size
        /\ expr.was = "Alignof" => expr.value = struct.alignment

=============================================================================
